---- MODULE Spec2Model ----
(***************************************************************************)
(* Verification model of vitest-environment-vscode: the pool side          *)
(* (createVsCodePool, pool.ts) and the worker runtime inside the editor    *)
(* (createWorkerRuntime, worker-entry.ts).                                  *)
(*                                                                         *)
(* Both sides run on a single-threaded event loop.  One action of the      *)
(* model is one macrotask: an event handler (socket message, socket close, *)
(* timer, API call) together with all promise continuations it releases,   *)
(* run until every coroutine is blocked on a promise that only a later     *)
(* event can settle.                                                       *)
(***************************************************************************)
EXTENDS Integers, Sequences, FiniteSets, TLC

\* ------------------------------------------------------------------ bounds
MaxSockets == 2
MaxTasks == 2
MaxClock == 0
MaxActors == 3
MaxCloseCalls == 2
MaxRequests == 3
MaxWorkerRequests == 3
MaxListeners == 2
MaxSends == 2
MaxReleases == 3
MaxReentry == 1
MaxEvents == 3
MaxBuffer == 2
MaxNext == 3
MaxObjects == 2
\* for (let i = 0; i < 11; i++): the `ready` loop of the init-based run
ReadyAttempts == 11

Socks == 1..MaxSockets
Tasks == 1..MaxTasks
Clock == 0..MaxClock
None == "none"
RequestActions == {"run", "collect", "shutdown", "ready"}
\* The id a worker puts in its `ready` request: `ready-${Date.now()}`.
ReadyId(ws) == <<"ready", ws>>

\* Inputs of runTests/collectTests: sequences of specs, a spec is
\* [project, moduleId].
SpecA1 == [project |-> "a", moduleId |-> "a1"]
SpecB1 == [project |-> "b", moduleId |-> "b1"]
SpecA2 == [project |-> "a", moduleId |-> "a2"]
TaskInputs == {[method |-> "run", files |-> <<SpecA1>>],
               [method |-> "collect", files |-> <<SpecA1, SpecB1, SpecA2>>]}

\* ------------------------------------------------------- pool-side state
VARIABLES
    wsState,            \* ws.readyState per socket: none (not connected), open, closing, closed
    isReady,            \* registerConnection: let isReady
    clients,            \* const clients: ClientConnection[]
    pendingConnections, \* Map<WebSocket, ClientConnection>, in insertion order
    pending,            \* connection.pending: keys of the Map per connection
    rpcSubscribers,     \* connection.rpcSubscribers (the bridges' forwarders, by task)
    handleDisposing,    \* toAsyncDispose: disposingPromise of each client handle
    sent,               \* what the pool wrote to each socket, in order
    requests,           \* every control request issued: promise and timer state
    nextRequestId,
    nextWorkerId,
    readyResolvers,     \* waitForClient resolvers, by task
    taskPc, taskMethod, taskGroups, taskIdx, taskReq, taskError,
    taskFiles,          \* the files argument of each runTests/collectTests call
    delivered,          \* payloads the running handler passed to RPC subscribers
    logged,             \* what the running handler wrote to logger.error
    closePc, closeSnapshot, closeIdx, closeConn, closeVisited, closeReq,
    errors, closeSteps, closeCalls, closeResult, closeThrown,
    serverState, serverStopping, serverDisposing, acceptLoop,
    testPromise,
    clock,              \* what options.now() returns
    microtasks,         \* promise continuations released by the running handler
    sendThrows,         \* encoding or writing a control request throws from now on
    announced           \* calls of options.onClientConnected, per connection

poolVars == <<taskFiles, delivered, logged, wsState, isReady, clients, pendingConnections, pending, rpcSubscribers,
              handleDisposing, sent, requests, nextRequestId, nextWorkerId,
              readyResolvers, taskPc, taskMethod, taskGroups, taskIdx, taskReq,
              taskError, closePc, closeSnapshot, closeIdx, closeConn, closeVisited,
              closeReq, errors, closeSteps, closeCalls, closeResult, closeThrown,
              serverState, serverStopping, serverDisposing, acceptLoop, testPromise,
              clock, microtasks, sendThrows, announced>>

\* ----------------------------------------------------- worker-side state
VARIABLES
    phase,              \* where run() is: created, connecting, handshake, serving, settled
    runResult,          \* how the promise of run() settled
    socketState,        \* socket.readyState
    listening,          \* onMessage is attached to the socket
    shuttingDown,
    rpcListeners,
    commandQueue,       \* requests chained on commandQueue whose handler has not started
    hostInFlight,       \* requests whose host run/collect promise is unsettled
    hostCalls,          \* every host invocation made, in order, with the state it started in
    workerSent,         \* what the worker wrote to the socket, in order
    received,           \* control requests onMessage has accepted, in order
    heard               \* payloads the running handler passed to RPC listeners

workerVars == <<phase, runResult, socketState, listening, shuttingDown, rpcListeners,
                commandQueue, hostInFlight, hostCalls, workerSent, received, heard>>

\* ------------------------------------------------ VscodePoolWorker state
VARIABLES
    pwStart,            \* where start() is, or how its promise settled
    pwStartError,       \* what start() rejected with
    pwServer,           \* the WebSocketServer of createWebSocketServer
    pwSocket,           \* readyState of the accepted client socket
    pwWs,               \* this.#ws is set
    pwStack,            \* resources held by this.#stack, in order of use
    pwDisposed,         \* this.#stack.disposed
    pwTestRunPromise,   \* this.#testRunPromise: none, pending, resolved, rejected
    pwStop,             \* where stop() is, or how its promise settled
    pwStopErrors,       \* disposer errors collected by disposeAsync
    pwSent,             \* what was written to the client socket, in order
    pwSendLog           \* every send() call: where start() was, and the outcome

pwVars == <<pwStart, pwStartError, pwServer, pwSocket, pwWs, pwStack, pwDisposed,
            pwTestRunPromise, pwStop, pwStopErrors, pwSent, pwSendLog>>

\* ------------------------------------------ init-based worker run state
VARIABLES
    irPc,               \* where run() is, or how its promise settled
    irError,            \* what run() rejected with
    irI,                \* the loop variable i of the `ready` loop
    irHandShake,        \* handShakePromise: none, pending, ready_ack, other, rejected
    irSocket,           \* ws.readyState
    irReadySent         \* `ready` frames written to the socket

irVars == <<irPc, irError, irI, irHandShake, irSocket, irReadySent>>

\* ------------------------------------------- utils/disposable.ts state
VARIABLES
    tdDisposed,         \* toDispose: let disposed
    tdCalls,            \* how often disposeFn has been invoked
    tdLog,              \* the [Symbol.dispose]() calls made: what disposeFn did, and
                        \* whether the call threw
    adDisposing,        \* toAsyncDispose: let disposingPromise (the promise's number)
    adCalls,            \* how often the async disposeFn has been invoked
    adPromises,         \* the promises disposeFn returned, each pending, fulfilled or rejected
    adReleases          \* the [Symbol.asyncDispose]() calls made: the promise each awaits

disposeVars == <<tdDisposed, tdCalls, tdLog, adDisposing, adCalls, adPromises, adReleases>>

\* --------------------------------------------- utils/handlers.ts state
VARIABLES
    emListeners,        \* the emitter's listeners for the event, in the order added:
                        \* whose handler it is and whether it was added with once()
    emEmitted,          \* how many events the emitter has emitted (the n-th carries n)
    hoPromise,          \* handleOnce: the promise (none before the call)
    hoValue,            \* what the promise settled with
    hoDisposed,         \* toDispose's flag of the handleOnce handle
    hnCreated,          \* handleOn has been called
    hnMaxBuffer,        \* handleOn: the maxBuffer argument
    hnDone,             \* handleOn: let done
    hnDisposed,         \* toDispose's flag of the handleOn handle
    hnBuffer,           \* handleOn: const buffer
    hnPending,          \* handleOn: const pending (the next() calls waiting)
    hnResults           \* what each next() call has resolved with so far

handlerVars == <<emListeners, emEmitted, hoPromise, hoValue, hoDisposed, hnCreated, hnMaxBuffer,
                 hnDone, hnDisposed, hnBuffer, hnPending, hnResults>>

\* ------------------------------------------------------- ipc.ts state
VARIABLES
    cdStage,            \* idle, encoded (text made by encodeEnvelope), received
                        \* (text from the wire), decoded
    cdChannel,          \* encodeEnvelope's channel argument
    cdPayload,          \* encodeEnvelope's payload argument
    cdHeap,             \* the objects the payload reaches
    cdText,             \* the text handed to decodeEnvelope
    cdOut               \* what decodeEnvelope returned or that it threw

codecVars == <<cdStage, cdChannel, cdPayload, cdHeap, cdText, cdOut>>

\* ------------------- VscodePoolWorker and the init-based run on one socket
VARIABLES
    hsPoolGot,          \* frames of the worker that have arrived at the pool's socket
    hsWorkerGot,        \* frames of the pool that have arrived at the worker's socket
    hsOn,               \* the runner registered a 'message' listener through on()
    hsHeard             \* frames the runner's listener was called with, in order

hsVars == <<hsPoolGot, hsWorkerGot, hsOn, hsHeard>>

vars == <<poolVars, workerVars, pwVars, irVars, disposeVars, handlerVars, codecVars, hsVars>>

\* ---------------------------------------------------------------- helpers
SeqToSet(s) == {s[i] : i \in DOMAIN s}

RECURSIVE RemoveFromSeq(_, _)
RemoveFromSeq(s, x) ==
    IF s = <<>> THEN <<>>
    ELSE IF Head(s) = x THEN RemoveFromSeq(Tail(s), x)
    ELSE <<Head(s)>> \o RemoveFromSeq(Tail(s), x)

GroupSpecsPerFile(files, grouped) ==
    [i \in DOMAIN files |-> [project |-> files[i].project,
                             specs |-> <<files[i].moduleId>>]]

\* runForAllProjects: group the specs by project, in first-appearance order.
RECURSIVE GroupSpecs(_, _)
GroupSpecs(files, grouped) ==
    IF files = <<>> THEN grouped
    ELSE LET spec == Head(files)
             hit == {i \in DOMAIN grouped : grouped[i].project = spec.project}
         IN IF hit # {}
            THEN LET i == CHOOSE j \in hit : TRUE
                 IN GroupSpecs(Tail(files),
                        [grouped EXCEPT ![i].specs = Append(@, spec.moduleId)])
            ELSE GroupSpecs(Tail(files),
                        Append(grouped, [project |-> spec.project,
                                         specs |-> <<spec.moduleId>>]))

\* The whole pool state as one record, so that a handler and the
\* continuations it releases compose as functions.
Cur ==
    [wsState |-> wsState, isReady |-> isReady, clients |-> clients,
     pendingConnections |-> pendingConnections, pending |-> pending,
     rpcSubscribers |-> rpcSubscribers, handleDisposing |-> handleDisposing,
     sent |-> sent, requests |-> requests, nextRequestId |-> nextRequestId,
     nextWorkerId |-> nextWorkerId, readyResolvers |-> readyResolvers,
     taskPc |-> taskPc, taskMethod |-> taskMethod, taskGroups |-> taskGroups,
     taskIdx |-> taskIdx, taskReq |-> taskReq, taskError |-> taskError,
     closePc |-> closePc, closeSnapshot |-> closeSnapshot, closeIdx |-> closeIdx,
     closeConn |-> closeConn, closeVisited |-> closeVisited, closeReq |-> closeReq,
     errors |-> errors, closeSteps |-> closeSteps, closeCalls |-> closeCalls,
     closeResult |-> closeResult, closeThrown |-> closeThrown,
     serverState |-> serverState, serverStopping |-> serverStopping,
     serverDisposing |-> serverDisposing, acceptLoop |-> acceptLoop,
     testPromise |-> testPromise, now |-> clock, microtasks |-> microtasks,
     sendThrows |-> sendThrows, announced |-> announced,
     taskFiles |-> taskFiles, delivered |-> <<>>, logged |-> {}]

Commit(S) ==
    /\ S.nextRequestId <= MaxRequests
    /\ wsState' = S.wsState
    /\ isReady' = S.isReady
    /\ clients' = S.clients
    /\ pendingConnections' = S.pendingConnections
    /\ pending' = S.pending
    /\ rpcSubscribers' = S.rpcSubscribers
    /\ handleDisposing' = S.handleDisposing
    /\ sent' = S.sent
    /\ requests' = S.requests
    /\ nextRequestId' = S.nextRequestId
    /\ nextWorkerId' = S.nextWorkerId
    /\ readyResolvers' = S.readyResolvers
    /\ taskPc' = S.taskPc
    /\ taskMethod' = S.taskMethod
    /\ taskGroups' = S.taskGroups
    /\ taskIdx' = S.taskIdx
    /\ taskReq' = S.taskReq
    /\ taskError' = S.taskError
    /\ closePc' = S.closePc
    /\ closeSnapshot' = S.closeSnapshot
    /\ closeIdx' = S.closeIdx
    /\ closeConn' = S.closeConn
    /\ closeVisited' = S.closeVisited
    /\ closeReq' = S.closeReq
    /\ errors' = S.errors
    /\ closeSteps' = S.closeSteps
    /\ closeCalls' = S.closeCalls
    /\ closeResult' = S.closeResult
    /\ closeThrown' = S.closeThrown
    /\ serverState' = S.serverState
    /\ serverStopping' = S.serverStopping
    /\ serverDisposing' = S.serverDisposing
    /\ acceptLoop' = S.acceptLoop
    /\ testPromise' = S.testPromise
    /\ clock' = S.now
    /\ microtasks' = S.microtasks
    /\ sendThrows' = S.sendThrows
    /\ announced' = S.announced
    /\ taskFiles' = S.taskFiles
    /\ delivered' = S.delivered
    /\ logged' = S.logged
    /\ UNCHANGED <<workerVars, pwVars, irVars, disposeVars, handlerVars, codecVars, hsVars>>

Err(kind, detail) == [kind |-> kind, detail |-> detail]
NoError == Err(None, None)
NoCtx == [projectName |-> None, files |-> <<>>, workerId |-> 0]

\* ws.send(data): the frame goes out on an OPEN socket; on a closing or
\* closed socket it is dropped.
WsSend(S, ws, msg) ==
    IF S.wsState[ws] = "open"
    THEN [S EXCEPT !.sent[ws] = Append(@, msg)]
    ELSE S

MakeRequestIdClockOnly(t, n) == ToString(t)

\* `${now()}-${++nextRequestId}`: the text of the clock value, a dash and
\* the decimal text of the counter.
MakeRequestId(t, n) == ToString(t) \o "-" \o ToString(n)

\* sendControlRequest up to its await: arm the timer, record the pending
\* entry under request.id and write the request; when that throws, the
\* catch disarms the timer, deletes the entry and rejects.
SendControlRequest(S, ws, action, ctx, awaiter, t) ==
    LET n == S.nextRequestId + 1
        id == MakeRequestId(t, n)
        req == [id |-> id, ws |-> ws, action |-> action, ctx |-> ctx,
                status |-> "pending", error |-> NoError, timer |-> "armed",
                awaiter |-> awaiter,
                \* how often the dispose of the bridge built for this
                \* request has been called (a shutdown request has no bridge)
                disposed |-> 0,
                \* history: a request on this socket had timed out before
                afterTimeout |-> \E k \in DOMAIN S.requests :
                                    /\ S.requests[k].ws = ws
                                    /\ S.requests[k].error.kind = "timeout"]
        S1 == [S EXCEPT !.nextRequestId = n,
                        !.requests = Append(@, req),
                        !.pending[ws] = @ \cup {id}]
        failed == [req EXCEPT !.status = "rejected",
                              !.error = Err("send", "failed"),
                              !.timer = "cleared"]
    IN IF S.sendThrows
       THEN [S EXCEPT !.nextRequestId = n,
                      !.requests = Append(@, failed),
                      !.microtasks = Append(@, [k |-> "request", a |-> n, ws |-> 0])]
       ELSE WsSend(S1, ws, [kind |-> "request", id |-> id, action |-> action])


PushErrorDropped(errs, e) == errs

\* errors.push(toError(error))
PushError(errs, e) == Append(errs, e)

LogStep(S, step, conn) ==
    [S EXCEPT !.closeSteps = Append(@, [step |-> step, conn |-> conn])]

\* A continuation waiting in the microtask queue: the coroutine awaiting
\* request a ("request"), task a resuming from waitForClient with socket ws
\* ("client"), or close() resuming from the promise it awaits ("close").
Job(k, a, ws) == [k |-> k, a |-> a, ws |-> ws]
Enqueue(S, job) == [S EXCEPT !.microtasks = Append(@, job)]

\* ------------------------------------------------- runTests / collectTests
\* executeForProject once waitForClient has produced `ws`: build the
\* bridge, take a worker id, issue the control request and await it.
ExecuteWithClient(S, t, ws) ==
    LET grp == S.taskGroups[t][S.taskIdx[t]]
        workerId == S.nextWorkerId + 1
        ctx == [projectName |-> grp.project, files |-> grp.specs,
                workerId |-> workerId]
        S1 == [S EXCEPT !.rpcSubscribers[ws] = @ \cup {t},
                        !.nextWorkerId = workerId,
                        !.taskPc[t] = "awaitRequest",
                        !.taskReq[t] = S.nextRequestId + 1]
    IN SendControlRequest(S1, ws, S.taskMethod[t], ctx, t, S.now)

\* waitForClient: clients[0] if there is one, else park a resolver.
ExecuteForProject(S, t) ==
    IF S.clients # <<>>
    THEN ExecuteWithClient(S, t, S.clients[1])
    ELSE [S EXCEPT !.taskPc[t] = "waitClient",
                   !.readyResolvers = Append(@, t)]

\* runForAllProjects: the loop over the groups, entered at taskIdx.
RunForAllProjects(S, t) ==
    IF S.taskIdx[t] > Len(S.taskGroups[t])
    THEN [S EXCEPT !.taskPc[t] = "done"]
    ELSE ExecuteForProject(S, t)

TaskAfterRequestDisposeOnSuccess(S, t, n) ==
    LET r == S.requests[n]
        S1 == [S EXCEPT !.taskReq[t] = 0]
    IN IF r.status = "resolved"
       THEN RunForAllProjects([S1 EXCEPT !.rpcSubscribers[r.ws] = @ \ {t},
                                         !.requests[n].disposed = @ + 1,
                                         !.taskIdx[t] = @ + 1], t)
       ELSE [S1 EXCEPT !.taskPc[t] = "failed", !.taskError[t] = r.error]

\* executeForProject after its request settled: the bridge scope is
\* disposed, then the loop goes on or the rejection propagates.
TaskAfterRequest(S, t, n) ==
    LET r == S.requests[n]
        S1 == [S EXCEPT !.rpcSubscribers[r.ws] = @ \ {t}, !.taskReq[t] = 0,
                        !.requests[n].disposed = @ + 1]
    IN IF r.status = "resolved"
       THEN RunForAllProjects([S1 EXCEPT !.taskIdx[t] = @ + 1], t)
       ELSE [S1 EXCEPT !.taskPc[t] = "failed", !.taskError[t] = r.error]

\* ------------------------------------------------------------ pool.close()
RECURSIVE CloseLoopClients(_)
RECURSIVE CloseLoopPending(_)
RECURSIVE CloseDispose(_, _)
RECURSIVE CloseAdvance(_)

\* close(): the tail after both loops, from `await testPromise` on.
CloseFinish(S) ==
    [S EXCEPT !.closePc = "done",
              !.closeResult = IF S.errors = <<>> THEN "resolved" ELSE "rejected",
              !.closeThrown = S.errors]

CloseAwaitChild(S) ==
    LET S1 == LogStep(S, "child_awaited", 0)
    IN CASE S.testPromise = "pending" -> [S1 EXCEPT !.closePc = "awaitChild"]
         [] S.testPromise = "resolved" -> CloseFinish(S1)
         [] OTHER -> CloseFinish([S1 EXCEPT !.errors =
                                    PushError(@, Err("child", "exited"))])

\* close(): clear the bookkeeping, stop accepting, dispose the server handle.
CloseServer(S) ==
    LET S1 == LogStep([S EXCEPT !.pendingConnections = <<>>,
                                !.clients = <<>>,
                                !.readyResolvers = <<>>,
                                !.serverStopping = TRUE], "server_close", 0)
    IN CASE S.serverDisposing = None ->
                [S1 EXCEPT !.serverDisposing = "pending",
                           !.serverState = "closing",
                           !.closePc = "awaitServer"]
         [] S.serverDisposing = "pending" -> [S1 EXCEPT !.closePc = "awaitServer"]
         [] S.serverDisposing = "resolved" -> CloseAwaitChild(S1)
         [] OTHER -> CloseAwaitChild([S1 EXCEPT !.errors =
                                    PushError(@, Err("server", "close"))])

\* closeConnection, second half: connection.dispose(), i.e. the client
\* handle's single-shot async dispose (ws.close(), await close or error).
CloseDispose(S, c) ==
    LET S1 == LogStep([S EXCEPT !.closeConn = c], "socket_close", c)
    IN CASE S.handleDisposing[c] = None ->
                IF S.wsState[c] = "closed"
                THEN CloseAdvance([S1 EXCEPT !.handleDisposing[c] = "resolved"])
                ELSE [S1 EXCEPT !.handleDisposing[c] = "pending",
                                !.wsState[c] = "closing",
                                !.closePc = "awaitSocket"]
         [] S.handleDisposing[c] = "pending" -> [S1 EXCEPT !.closePc = "awaitSocket"]
         [] S.handleDisposing[c] = "resolved" -> CloseAdvance(S1)
         [] OTHER -> CloseAdvance([S1 EXCEPT !.errors =
                                    PushError(@, Err("socket", ToString(c)))])

\* closeConnection returned: next element of the loop that called it.
CloseAdvance(S) ==
    IF S.closeIdx <= Len(S.closeSnapshot)
    THEN CloseLoopClients([S EXCEPT !.closeIdx = @ + 1])
    ELSE CloseLoopPending([S EXCEPT !.closeVisited = @ \cup {S.closeConn}])

CloseLoopClientsHasty(S) ==
    IF S.closeIdx > Len(S.closeSnapshot)
    THEN CloseLoopPending(S)
    ELSE CloseDispose(S, S.closeSnapshot[S.closeIdx])

\* for (const client of [...clients]) await closeConnection(client, true)
CloseLoopClients(S) ==
    IF S.closeIdx > Len(S.closeSnapshot)
    THEN CloseLoopPending(S)
    ELSE LET c == S.closeSnapshot[S.closeIdx]
         IN IF S.wsState[c] = "open"
            THEN SendControlRequest(
                    LogStep([S EXCEPT !.closePc = "awaitShutdown",
                                      !.closeConn = c,
                                      !.closeReq = S.nextRequestId + 1],
                            "shutdown_sent", c),
                    c, "shutdown", NoCtx, 0 - S.closeCalls, S.now)
            ELSE CloseDispose(S, c)

\* for (const connection of pendingConnections.values())
\*     await closeConnection(connection, false)
\* The Map iterator is live: entries deleted before it reaches them are
\* skipped, entries added meanwhile are visited.
CloseLoopPending(S) ==
    LET todo == {i \in DOMAIN S.pendingConnections :
                    S.pendingConnections[i] \notin S.closeVisited}
    IN IF todo = {}
       THEN CloseServer(S)
       ELSE LET i == CHOOSE j \in todo : \A k \in todo : j <= k
            IN CloseDispose(S, S.pendingConnections[i])

CloseAfterShutdownThrowing(S, n) ==
    LET r == S.requests[n]
        S1 == LogStep([S EXCEPT !.closeReq = 0], "shutdown_settled", r.ws)
    IN IF r.status = "rejected"
       THEN CloseFinish([S1 EXCEPT !.errors = PushError(@, r.error)])
       ELSE CloseDispose(S1, r.ws)

\* closeConnection after the shutdown request settled.
CloseAfterShutdown(S, n) ==
    LET r == S.requests[n]
        S1 == LogStep([S EXCEPT !.closeReq = 0], "shutdown_settled", r.ws)
        S2 == IF r.status = "rejected"
              THEN [S1 EXCEPT !.errors = PushError(@, r.error)]
              ELSE S1
    IN CloseDispose(S2, r.ws)

\* ----------------------------------------------- settling control requests
\* A settle that leaves the entry in the pending map.
MarkSettledKeepsEntry(S, n, status, error, timer) ==
    [S EXCEPT !.requests[n].status = status,
              !.requests[n].error = error,
              !.requests[n].timer = timer]

\* The promise of request n settles; its pending entry goes, its timer is
\* disarmed (or has fired).
MarkSettled(S, n, status, error, timer) ==
    LET r == S.requests[n]
    IN [S EXCEPT !.requests[n].status = status,
                 !.requests[n].error = error,
                 !.requests[n].timer = timer,
                 !.pending[r.ws] = @ \ {r.id}]

\* The coroutine awaiting request n resumes.
Continue(S, n) ==
    LET a == S.requests[n].awaiter
    IN IF a \in Tasks THEN TaskAfterRequest(S, a, n)
       ELSE CloseAfterShutdown(S, n)

\* close() resumes from the promise it was awaiting; a rejection lands in
\* the catch that collects it.
CloseResume(S) ==
    CASE S.closePc = "awaitSocket" ->
            CloseAdvance(IF S.handleDisposing[S.closeConn] = "rejected"
                         THEN [S EXCEPT !.errors =
                                 PushError(@, Err("socket", ToString(S.closeConn)))]
                         ELSE S)
      [] S.closePc = "awaitServer" ->
            CloseAwaitChild(IF S.serverDisposing = "rejected"
                            THEN [S EXCEPT !.errors = PushError(@, Err("server", "close"))]
                            ELSE S)
      [] S.closePc = "awaitChild" ->
            CloseFinish(IF S.testPromise = "rejected"
                        THEN [S EXCEPT !.errors = PushError(@, Err("child", "exited"))]
                        ELSE S)
      [] OTHER -> S

RequestOfId(S, id) == CHOOSE n \in DOMAIN S.requests : S.requests[n].id = id

\* ------------------------------------------- registerConnection handlers
\* logger.error(...)
Log(S, what) == [S EXCEPT !.logged = @ \cup {what}]

FindPendingOldest(pend, id) ==
    LET at(x) == CHOOSE k \in DOMAIN requests : requests[k].id = x
    IN IF pend = {} THEN {} ELSE {CHOOSE x \in pend : \A y \in pend : at(x) <= at(y)}

\* connection.pending.get(response.id)
FindPending(pend, id) == IF id \in pend THEN {id} ELSE {}

\* Error of a failed response: new Error(response.error ?? ...)
WorkerError == Err("worker", "reported")

\* ws.on('message'), control response branch.
OnResponse(S, ws, id, ok) ==
    LET hit == FindPending(S.pending[ws], id)
    IN IF hit = {} THEN S
       ELSE LET n == RequestOfId(S, CHOOSE x \in hit : TRUE)
                S1 == IF ok
                      THEN MarkSettled(S, n, "resolved", NoError, "cleared")
                      ELSE MarkSettled(S, n, "rejected", WorkerError, "cleared")
            IN Enqueue(IF ok THEN S1 ELSE Log(S1, "worker_rejected"),
                       Job("request", n, 0))

\* notifyClientReady: every parked resolver is resolved with the client.
RECURSIVE NotifyClientReady(_, _, _)
NotifyClientReady(S, resolvers, ws) ==
    IF resolvers = <<>> THEN S
    ELSE NotifyClientReady(Enqueue(S, Job("client", Head(resolvers), ws)),
                           Tail(resolvers), ws)

\* The id echoed by the acknowledgement of `ready`.
AckId(rid) == rid

\* ws.on('message'), `ready` branch: mark ready, move the connection from
\* pendingConnections to clients, notify the waiters, announce the
\* connection through onClientConnected, acknowledge.
OnReady(S, ws, rid) ==
    IF S.isReady[ws] THEN S
    ELSE LET resolvers == S.readyResolvers
             S1 == [S EXCEPT !.isReady[ws] = TRUE,
                             !.pendingConnections = RemoveFromSeq(@, ws),
                             !.clients = IF ws \in SeqToSet(@) THEN @
                                         ELSE Append(@, ws),
                             !.announced[ws] = @ + 1,
                             !.readyResolvers = <<>>]
             S2 == NotifyClientReady(S1, resolvers, ws)
         IN WsSend(S2, ws, [kind |-> "ack", id |-> AckId(rid), action |-> "ready"])

\* ------------------------------------------------------- inbound frames
\* What arrives on a socket: text that does not parse, or a parsed object
\* with or without its `channel` and `payload` keys.
Frame(form, hasChannel, channel, hasPayload, payload) ==
    [form |-> form, hasChannel |-> hasChannel, channel |-> channel,
     hasPayload |-> hasPayload, payload |-> payload]

\* A payload, by the keys the type guards look at.
Payload(hasId, id, hasAction, action, hasSuccess, success, data) ==
    [hasId |-> hasId, id |-> id, hasAction |-> hasAction, action |-> action,
     hasSuccess |-> hasSuccess, success |-> success, data |-> data]

RequestPayload(id, action) == Payload(TRUE, id, TRUE, action, FALSE, FALSE, None)
ResponsePayload(id, ok) == Payload(TRUE, id, FALSE, None, TRUE, ok, None)
RpcPayload(data) == Payload(FALSE, <<>>, FALSE, None, FALSE, FALSE, data)
NoPayload == Payload(FALSE, <<>>, FALSE, None, FALSE, FALSE, None)

\* encodeEnvelope(channel, payload), as it arrives at the peer.
Envelope(channel, payload) == Frame("object", TRUE, channel, TRUE, payload)
Garbage == Frame("text", FALSE, None, FALSE, NoPayload)

DecodeEnvelopeLenient(raw) ==
    IF raw.form # "object"
    THEN [ok |-> FALSE, channel |-> None, payload |-> NoPayload]
    ELSE [ok |-> TRUE,
          channel |-> IF raw.hasChannel /\ raw.channel = "rpc" THEN "rpc" ELSE "control",
          payload |-> IF raw.hasPayload THEN raw.payload ELSE NoPayload]

\* decodeEnvelope: throws on text that does not parse to an object and on a
\* channel that is neither "rpc" nor "control".
DecodeEnvelope(raw) ==
    IF raw.form # "object"
    THEN [ok |-> FALSE, channel |-> None, payload |-> NoPayload]
    ELSE IF ~raw.hasChannel \/ raw.channel \notin {"rpc", "control"}
    THEN [ok |-> FALSE, channel |-> None, payload |-> NoPayload]
    ELSE [ok |-> TRUE, channel |-> raw.channel,
          payload |-> IF raw.hasPayload THEN raw.payload ELSE NoPayload]

IsControlRequest(p) == p.hasAction /\ p.hasId
IsControlResponse(p) == p.hasSuccess /\ p.hasId

RpcTargetsAnySocket(S, ws) == UNION {S.rpcSubscribers[w] : w \in Socks}

\* for (const subscriber of connection.rpcSubscribers)
RpcTargets(S, ws) == S.rpcSubscribers[ws]

\* ws.on('message'), RPC branch.
OnRpc(S, ws, payload) ==
    LET to == RpcTargets(S, ws)
    IN IF to = {} THEN S
       ELSE [S EXCEPT !.delivered = Append(@, [ws |-> ws, to |-> to,
                                               data |-> payload.data])]

\* A message handler whose `ready` branch runs for every `ready` frame.
OnMessageReadyEveryTime(S, ws, raw) ==
    LET env == DecodeEnvelope(raw)
        p == env.payload
    IN CASE ~env.ok -> Log(S, "decode_failed")
         [] env.ok /\ env.channel = "rpc" -> OnRpc(S, ws, p)
         [] env.ok /\ env.channel # "rpc"
               /\ IsControlRequest(p) /\ p.action = "ready" ->
                  OnReady([S EXCEPT !.isReady[ws] = FALSE], ws, p.id)
         [] OTHER -> IF IsControlResponse(p)
                     THEN OnResponse(S, ws, p.id, p.success)
                     ELSE S

\* ws.on('message', raw): decode, then the RPC branch, the `ready` branch
\* or the control response branch.
OnMessage(S, ws, raw) ==
    LET env == DecodeEnvelope(raw)
        p == env.payload
    IN CASE ~env.ok -> Log(S, "decode_failed")
         [] env.ok /\ env.channel = "rpc" -> OnRpc(S, ws, p)
         [] env.ok /\ env.channel # "rpc" /\ ~S.isReady[ws]
               /\ IsControlRequest(p) /\ p.action = "ready" -> OnReady(S, ws, p.id)
         [] OTHER -> IF IsControlResponse(p)
                     THEN OnResponse(S, ws, p.id, p.success)
                     ELSE S

DisconnectVictimsFirst(pend) ==
    LET at(x) == CHOOSE k \in DOMAIN requests : requests[k].id = x
    IN IF pend = {} THEN {} ELSE {CHOOSE x \in pend : \A y \in pend : at(x) <= at(y)}

\* ws.on('close'): which pending entries the handler rejects.
DisconnectVictims(pend) == pend

DisconnectedError == Err("disconnected", "socket")

\* for (const pending of connection.pending.values()) pending.reject(...)
RECURSIVE RejectAll(_, _, _)
RejectAll(S, ns, error) ==
    IF ns = {} THEN S
    ELSE LET n == CHOOSE x \in ns : \A y \in ns : x <= y
         IN RejectAll(Enqueue(MarkSettled(S, n, "rejected", error, "cleared"),
                              Job("request", n, 0)),
                      ns \ {n}, error)

\* ws.on('close'): drop the connection from both collections, reject what
\* is pending, clear the maps.  A dispose awaiting this close resolves.
OnSocketClose(S, ws) ==
    LET victims == {RequestOfId(S, id) : id \in DisconnectVictims(S.pending[ws])}
        S1 == [S EXCEPT !.wsState[ws] = "closed",
                        !.clients = RemoveFromSeq(@, ws),
                        !.pendingConnections = RemoveFromSeq(@, ws)]
        S2 == RejectAll(S1, victims, DisconnectedError)
        S3 == [S2 EXCEPT !.pending[ws] = {},
                         !.rpcSubscribers[ws] = {},
                         !.handleDisposing[ws] =
                              IF @ = "pending" THEN "resolved" ELSE @]
    IN IF S.closePc = "awaitSocket" /\ S.closeConn = ws
          /\ S.handleDisposing[ws] = "pending"
       THEN Enqueue(S3, Job("close", 0, 0))
       ELSE S3

\* ws 'error' while the handle's dispose waits for close: the dispose
\* rejects and close() collects the error.
OnSocketError(S, ws) ==
    LET S1 == Log([S EXCEPT !.handleDisposing[ws] = "rejected"], "socket_error")
    IN IF S.closePc = "awaitSocket" /\ S.closeConn = ws
       THEN Enqueue(S1, Job("close", 0, 0))
       ELSE S1

TimeoutErrorUnnamed(action) == Err("timeout", "request")

\* `Control request ${request.action} timed out after ${timeout}ms`
TimeoutError(action) == Err("timeout", action)

\* sendControlRequest's timer callback.
OnTimer(S, n) ==
    LET r == S.requests[n]
        S1 == [S EXCEPT !.requests[n].timer = "fired"]
    IN IF r.id \in S.pending[r.ws]
       THEN Enqueue(MarkSettled(S1, n, "rejected", TimeoutError(r.action), "fired"),
                    Job("request", n, 0))
       ELSE S1

\* waitForClient's timer callback.
OnWaitTimer(S, t) ==
    [S EXCEPT !.readyResolvers = RemoveFromSeq(@, t),
              !.taskPc[t] = "failed",
              !.taskError[t] = Err("connect_timeout", "worker")]

RegisterConnectionAsClient(S, ws) ==
    [S EXCEPT !.wsState[ws] = "open",
              !.clients = Append(@, ws)]

\* registerConnection(handle) for a socket the accept loop received.
RegisterConnection(S, ws) ==
    [S EXCEPT !.wsState[ws] = "open",
              !.pendingConnections = Append(@, ws)]

\* The server finished closing: 'close' ends the accept loop, the
\* callback settles the server handle's dispose.
OnServerClosed(S, ok) ==
    LET S1 == [S EXCEPT !.serverState = "closed",
                        !.acceptLoop = IF S.serverStopping THEN "exited" ELSE @,
                        !.serverDisposing = IF ok THEN "resolved" ELSE "rejected"]
    IN IF S.closePc = "awaitServer"
       THEN Enqueue(S1, Job("close", 0, 0))
       ELSE S1

\* launchTests(...) settles: the editor exited.
OnChildExit(S, ok) ==
    LET S1 == [S EXCEPT !.testPromise = IF ok THEN "resolved" ELSE "rejected"]
    IN IF S.closePc = "awaitChild"
       THEN Enqueue(S1, Job("close", 0, 0))
       ELSE S1

\* close() called.
CloseCall(S) ==
    CloseLoopClients([S EXCEPT !.closeCalls = @ + 1,
                               !.errors = <<>>,
                               !.closeSteps = <<>>,
                               !.closeSnapshot = S.clients,
                               !.closeIdx = 1,
                               !.closeVisited = {},
                               !.closeConn = 0,
                               !.closeResult = None,
                               !.closeThrown = <<>>])

\* runTests(files) / collectTests(files) called.
TaskCall(S, t, method, files) ==
    RunForAllProjects([S EXCEPT !.taskMethod[t] = method,
                                !.taskFiles[t] = files,
                                !.taskGroups[t] = GroupSpecs(files, <<>>),
                                !.taskIdx[t] = 1], t)


\* The head of the microtask queue runs.
RunJob(S, job) ==
    CASE job.k = "request" -> Continue(S, job.a)
      [] job.k = "client" -> ExecuteWithClient(S, job.a, job.ws)
      [] OTHER -> CloseResume(S)

\* ---------------------------------------------------------- worker runtime
WCur ==
    [phase |-> phase, runResult |-> runResult, socketState |-> socketState,
     listening |-> listening, shuttingDown |-> shuttingDown,
     rpcListeners |-> rpcListeners, commandQueue |-> commandQueue,
     hostInFlight |-> hostInFlight, hostCalls |-> hostCalls,
     workerSent |-> workerSent, received |-> received, heard |-> <<>>]

WCommit(S) ==
    /\ phase' = S.phase
    /\ runResult' = S.runResult
    /\ socketState' = S.socketState
    /\ listening' = S.listening
    /\ shuttingDown' = S.shuttingDown
    /\ rpcListeners' = S.rpcListeners
    /\ commandQueue' = S.commandQueue
    /\ hostInFlight' = S.hostInFlight
    /\ hostCalls' = S.hostCalls
    /\ workerSent' = S.workerSent
    /\ received' = S.received
    /\ heard' = S.heard
    /\ UNCHANGED <<poolVars, pwVars, irVars, disposeVars, handlerVars, codecVars, hsVars>>

Response(id, success) == [kind |-> "response", id |-> id, success |-> success]

\* sendControlResponse: throws unless the socket is OPEN.
CanSendResponse(S) == S.socketState = "open"
SendControlResponse(S, response) ==
    IF CanSendResponse(S)
    THEN [S EXCEPT !.workerSent = Append(@, response)]
    ELSE S

ChainOnQueueFront(queue, request) == <<request>> \o queue

\* commandQueue = commandQueue.then(() => handleControlRequest(request))
ChainOnQueue(queue, request) == Append(queue, request)

CanStartHandlerAlways(inFlight) == TRUE

\* A chained handler starts when every handler chained before it has settled.
CanStartHandler(inFlight) == inFlight = {}

HandleControlRequestCloseFirst(S, request) ==
    CASE request.action = "shutdown" ->
            LET S1 == [S EXCEPT !.shuttingDown = TRUE,
                                !.rpcListeners = {},
                                !.listening = FALSE,
                                !.runResult = IF S.phase = "serving" /\ @ = None
                                              THEN "resolved" ELSE @,
                                !.phase = IF @ = "serving" THEN "settled" ELSE @,
                                !.socketState = IF @ = "open" THEN "closing" ELSE @]
            IN SendControlResponse(S1, Response(request.id, TRUE))
      [] request.action # "shutdown" /\ ~request.ctxOk ->
            SendControlResponse(S, Response(request.id, FALSE))
      [] OTHER ->
            [S EXCEPT !.hostInFlight = @ \cup {request},
                      !.hostCalls = Append(@, [id |-> request.id,
                            entry |-> IF request.action = "collect"
                                      THEN "collect" ELSE "run",
                            \* history: shuttingDown when the call started
                            afterShutdown |-> S.shuttingDown,
                            \* history: the action of the request
                            action |-> request.action])]

HandleControlRequestAnyCtx(S, request) ==
    CASE request.action = "shutdown" ->
            LET S1 == SendControlResponse([S EXCEPT !.shuttingDown = TRUE],
                                          Response(request.id, TRUE))
            IN [S1 EXCEPT !.rpcListeners = {},
                          !.listening = FALSE,
                          !.runResult = IF S.phase = "serving" /\ @ = None
                                        THEN "resolved" ELSE @,
                          !.phase = IF @ = "serving" THEN "settled" ELSE @,
                          !.socketState = IF @ = "open" THEN "closing" ELSE @]
      [] OTHER ->
            [S EXCEPT !.hostInFlight = @ \cup {request},
                      !.hostCalls = Append(@, [id |-> request.id,
                            entry |-> IF request.action = "collect"
                                      THEN "collect" ELSE "run",
                            \* history: shuttingDown when the call started
                            afterShutdown |-> S.shuttingDown,
                            \* history: the action of the request
                            action |-> request.action])]

\* handleControlRequest up to its first await on the host (or to its end).
HandleControlRequest(S, request) ==
    CASE request.action = "shutdown" ->
            LET S1 == SendControlResponse([S EXCEPT !.shuttingDown = TRUE],
                                          Response(request.id, TRUE))
            IN [S1 EXCEPT !.rpcListeners = {},
                          !.listening = FALSE,
                          !.runResult = IF S.phase = "serving" /\ @ = None
                                        THEN "resolved" ELSE @,
                          !.phase = IF @ = "serving" THEN "settled" ELSE @,
                          !.socketState = IF @ = "open" THEN "closing" ELSE @]
      [] request.action # "shutdown" /\ ~request.ctxOk ->
            SendControlResponse(S, Response(request.id, FALSE))
      [] OTHER ->
            [S EXCEPT !.hostInFlight = @ \cup {request},
                      !.hostCalls = Append(@, [id |-> request.id,
                            entry |-> IF request.action = "collect"
                                      THEN "collect" ELSE "run",
                            \* history: shuttingDown when the call started
                            afterShutdown |-> S.shuttingDown,
                            \* history: the action of the request
                            action |-> request.action])]

\* The chain advances: queued handlers start, in order, as long as the one
\* before has settled.
RECURSIVE PumpQueue(_)
PumpQueue(S) ==
    IF S.commandQueue # <<>> /\ CanStartHandler(S.hostInFlight)
    THEN PumpQueue(HandleControlRequest(
                      [S EXCEPT !.commandQueue = Tail(@)], Head(S.commandQueue)))
    ELSE S

\* onMessage, control branch.
OnControlRequest(S, request) ==
    PumpQueue([S EXCEPT !.received = Append(@, request),
                        !.commandQueue = ChainOnQueue(@, request)])

\* onMessage, RPC branch: for (const listener of rpcListeners)
OnWorkerRpc(S, payload) ==
    IF S.rpcListeners = {} THEN S
    ELSE [S EXCEPT !.heard = Append(@, [to |-> S.rpcListeners, data |-> payload.data])]

\* onMessage(raw): a frame that does not decode is dropped silently; the
\* rest goes to the RPC listeners or, if it is a control request, onto
\* the command queue.  ctxOk: the request's ctx is an object.
OnWorkerMessage(S, raw, ctxOk) ==
    LET env == DecodeEnvelope(raw)
        p == env.payload
    IN CASE ~env.ok -> S
         [] env.ok /\ env.channel = "rpc" -> OnWorkerRpc(S, p)
         [] OTHER -> IF IsControlRequest(p)
                     THEN OnControlRequest(S, [id |-> p.id, action |-> p.action,
                                               ctxOk |-> ctxOk,
                                               \* history: a host call was in flight on arrival
                                               busy |-> S.hostInFlight # {}])
                     ELSE S

OnHostSettledUncaught(S, request, ok) ==
    LET S1 == [S EXCEPT !.hostInFlight = @ \ {request}]
    IN PumpQueue(IF ok THEN SendControlResponse(S1, Response(request.id, TRUE)) ELSE S1)

\* The host promise of `request` settles: the response goes out (a throw
\* from sendControlResponse is swallowed by the queue's catch).
OnHostSettled(S, request, ok) ==
    PumpQueue(SendControlResponse([S EXCEPT !.hostInFlight = @ \ {request}],
                                  Response(request.id, ok)))

OnPeerGoneResolving(S) ==
    IF S.phase = "serving"
    THEN [S EXCEPT !.phase = "settled", !.runResult = "resolved"]
    ELSE S

\* handleClose / handleError of run()'s final promise.
OnPeerGone(S) ==
    IF S.phase = "serving"
    THEN [S EXCEPT !.phase = "settled",
                   !.runResult = IF S.shuttingDown THEN "resolved"
                                 ELSE "rejected_disconnected"]
    ELSE S

WorkerInit ==
    /\ phase = "created"
    /\ runResult = None
    /\ socketState = None
    /\ listening = FALSE
    /\ shuttingDown = FALSE
    /\ rpcListeners = {}
    /\ commandQueue = <<>>
    /\ hostInFlight = {}
    /\ hostCalls = <<>>
    /\ workerSent = <<>>
    /\ received = <<>>
    /\ heard = <<>>

\* run(): read the port, create the socket.
WorkerRun(portSet) ==
    /\ phase = "created"
    /\ IF portSet
       THEN WCommit([WCur EXCEPT !.phase = "connecting", !.socketState = "connecting"])
       ELSE WCommit([WCur EXCEPT !.phase = "settled", !.runResult = "rejected_missing_port"])

\* 'open': install the transport, attach onMessage, send `ready`.
WorkerOpen ==
    /\ phase = "connecting"
    /\ WCommit([WCur EXCEPT !.phase = "handshake",
                            !.socketState = "open",
                            !.listening = TRUE,
                            !.workerSent = Append(@, [kind |-> "ready", id |-> 0,
                                                      success |-> TRUE])])

WorkerConnectError ==
    /\ phase = "connecting"
    /\ WCommit([WCur EXCEPT !.phase = "settled",
                            !.socketState = "closed",
                            !.runResult = "rejected_connect"])

\* The acknowledgement of `ready` arrives.
WorkerReadyAck ==
    /\ phase = "handshake"
    /\ socketState \in {"open", "closing"}
    /\ WCommit([WCur EXCEPT !.phase = "serving"])

\* The 5000 ms timer of the handshake fires.
WorkerReadyTimeout ==
    /\ phase = "handshake"
    /\ WCommit([WCur EXCEPT !.phase = "settled", !.runResult = "rejected_ready_timeout"])

WorkerReceive(action, ctxOk) ==
    /\ listening
    /\ socketState = "open"
    /\ Len(received) < MaxWorkerRequests
    /\ WCommit(OnWorkerMessage(WCur,
                               Envelope("control",
                                        RequestPayload(Len(received) + 1, action)),
                               ctxOk))

HostSettles(request, ok) ==
    /\ request \in hostInFlight
    /\ WCommit(OnHostSettled(WCur, request, ok))

WorkerSocketClose ==
    /\ socketState \in {"open", "closing"}
    /\ WCommit(OnPeerGone([WCur EXCEPT !.socketState = "closed"]))

WorkerSocketError ==
    /\ socketState = "open"
    /\ phase = "serving"
    /\ WCommit(OnPeerGone(WCur))

\* The runner's transport: subscribe(listener) and the function it returns.
Listeners == 1..MaxListeners

WorkerSubscribe(l) ==
    /\ phase \in {"handshake", "serving", "settled"}
    /\ l \notin rpcListeners
    /\ WCommit([WCur EXCEPT !.rpcListeners = @ \cup {l}])

WorkerUnsubscribe(l) ==
    /\ l \in rpcListeners
    /\ WCommit([WCur EXCEPT !.rpcListeners = @ \ {l}])

WorkerRpcMessage(data) ==
    /\ listening
    /\ socketState \in {"open", "closing"}
    /\ WCommit(OnWorkerMessage(WCur, Envelope("rpc", RpcPayload(data)), FALSE))

WorkerMalformedMessage(raw) ==
    /\ listening
    /\ socketState \in {"open", "closing"}
    /\ WCommit(OnWorkerMessage(WCur, raw, FALSE))

WorkerNext ==
    \/ \E portSet \in BOOLEAN : WorkerRun(portSet)
    \/ WorkerOpen
    \/ WorkerConnectError
    \/ WorkerReadyAck
    \/ WorkerReadyTimeout
    \/ \E a \in RequestActions, c \in BOOLEAN : WorkerReceive(a, c)
    \/ \E r \in hostInFlight, ok \in BOOLEAN : HostSettles(r, ok)
    \/ WorkerSocketClose
    \/ WorkerSocketError

\* ------------------------------------------------------------------ Init
PoolInit ==
    /\ wsState = [w \in Socks |-> None]
    /\ isReady = [w \in Socks |-> FALSE]
    /\ clients = <<>>
    /\ pendingConnections = <<>>
    /\ pending = [w \in Socks |-> {}]
    /\ rpcSubscribers = [w \in Socks |-> {}]
    /\ handleDisposing = [w \in Socks |-> None]
    /\ sent = [w \in Socks |-> <<>>]
    /\ requests = <<>>
    /\ nextRequestId = 0
    /\ nextWorkerId = 0
    /\ readyResolvers = <<>>
    /\ taskPc = [t \in Tasks |-> "idle"]
    /\ taskMethod = [t \in Tasks |-> None]
    /\ taskGroups = [t \in Tasks |-> <<>>]
    /\ taskIdx = [t \in Tasks |-> 0]
    /\ taskReq = [t \in Tasks |-> 0]
    /\ taskError = [t \in Tasks |-> NoError]
    /\ taskFiles = [t \in Tasks |-> <<>>]
    /\ delivered = <<>>
    /\ logged = {}
    /\ closePc = "idle"
    /\ closeSnapshot = <<>>
    /\ closeIdx = 0
    /\ closeConn = 0
    /\ closeVisited = {}
    /\ closeReq = 0
    /\ errors = <<>>
    /\ closeSteps = <<>>
    /\ closeCalls = 0
    /\ closeResult = None
    /\ closeThrown = <<>>
    /\ serverState = "listening"
    /\ serverStopping = FALSE
    /\ serverDisposing = None
    /\ acceptLoop = "waiting"
    /\ testPromise = "pending"
    /\ clock \in Clock
    /\ microtasks = <<>>
    /\ sendThrows = FALSE
    /\ announced = [w \in Socks |-> 0]

\* --------------------------------------------------------------- actions
\* Sockets connected plus runTests/collectTests calls made so far.
Actors == Cardinality({w \in Socks : wsState[w] # None})
          + Cardinality({t \in Tasks : taskPc[t] # "idle"})

Inbound(ws) == wsState[ws] \in {"open", "closing"}

Connect(ws) ==
    /\ microtasks = <<>>
    /\ wsState[ws] = None
    /\ \A w \in Socks : w < ws => wsState[w] # None
    /\ serverState = "listening"
    /\ acceptLoop = "waiting"
    /\ Actors < MaxActors
    /\ Commit(RegisterConnection(Cur, ws))

ReadyMessage(ws) ==
    /\ microtasks = <<>>
    /\ Inbound(ws)
    /\ Commit(OnMessage(Cur, ws, Envelope("control",
                                           RequestPayload(ReadyId(ws), "ready"))))

ResponseMessage(ws, n, ok) ==
    /\ microtasks = <<>>
    /\ Inbound(ws)
    /\ Commit(OnMessage(Cur, ws, Envelope("control",
                                           ResponsePayload(requests[n].id, ok))))

SocketClose(ws) ==
    /\ microtasks = <<>>
    /\ Inbound(ws)
    /\ Commit(OnSocketClose(Cur, ws))

SocketError(ws) ==
    /\ microtasks = <<>>
    /\ wsState[ws] = "closing"
    /\ handleDisposing[ws] = "pending"
    /\ Commit(OnSocketError(Cur, ws))

TimerFires(n) ==
    /\ microtasks = <<>>
    /\ requests[n].timer = "armed"
    /\ Commit(OnTimer(Cur, n))

WaitTimerFires(t) ==
    /\ microtasks = <<>>
    /\ taskPc[t] = "waitClient"
    /\ Commit(OnWaitTimer(Cur, t))

ServerClosed(ok) ==
    /\ microtasks = <<>>
    /\ serverState = "closing"
    /\ Commit(OnServerClosed(Cur, ok))

ChildExit(ok) ==
    /\ microtasks = <<>>
    /\ testPromise = "pending"
    /\ Commit(OnChildExit(Cur, ok))

\* RPC traffic of the worker's runner.
RpcData == {"rpc1", "rpc2"}

RpcMessage(ws, data) ==
    /\ microtasks = <<>>
    /\ Inbound(ws)
    /\ Commit(OnMessage(Cur, ws, Envelope("rpc", RpcPayload(data))))

\* Frames decodeEnvelope rejects: text that is no envelope, an object
\* without a channel, an unknown channel around a payload that would
\* otherwise count (a `ready` request, a response to an issued request).
MalformedFrames ==
    {Garbage,
     Frame("object", FALSE, None, TRUE, RequestPayload(<<"ready", 0>>, "ready")),
     Frame("object", TRUE, "banana", TRUE, RequestPayload(<<"ready", 0>>, "ready"))}
    \cup {Frame("object", TRUE, "banana", TRUE, ResponsePayload(requests[n].id, TRUE)) :
             n \in DOMAIN requests}

MalformedMessage(ws, raw) ==
    /\ microtasks = <<>>
    /\ Inbound(ws)
    /\ Commit(OnMessage(Cur, ws, raw))

\* A control request other than `ready` sent by the worker.
RequestMessage(ws, action) ==
    /\ microtasks = <<>>
    /\ Inbound(ws)
    /\ Commit(OnMessage(Cur, ws, Envelope("control",
                                           RequestPayload(<<"worker", ws>>, action))))

Close ==
    /\ microtasks = <<>>
    /\ closePc \in {"idle", "done"}
    /\ closeCalls < MaxCloseCalls
    /\ Commit(CloseCall(Cur))

StartTask(t, in) ==
    /\ microtasks = <<>>
    /\ taskPc[t] = "idle"
    /\ \A u \in Tasks : u < t => taskPc[u] # "idle"
    /\ closeCalls = 0
    /\ Actors < MaxActors
    /\ Commit(TaskCall(Cur, t, in.method, in.files))

\* The event loop drains the microtask queue before the next event.
Drain ==
    /\ microtasks # <<>>
    /\ Commit(RunJob([Cur EXCEPT !.microtasks = Tail(@)], Head(microtasks)))

Next ==
    \/ Drain
    \/ \E ws \in Socks : Connect(ws)
    \/ \E ws \in Socks : ReadyMessage(ws)
    \/ \E ws \in Socks, n \in DOMAIN requests, ok \in BOOLEAN : ResponseMessage(ws, n, ok)
    \/ \E ws \in Socks : SocketClose(ws)
    \/ \E ws \in Socks : SocketError(ws)
    \/ \E n \in DOMAIN requests : TimerFires(n)
    \/ \E t \in Tasks : WaitTimerFires(t)
    \/ \E ok \in BOOLEAN : ServerClosed(ok)
    \/ \E ok \in BOOLEAN : ChildExit(ok)
    \/ Close
    \/ \E t \in Tasks, in \in TaskInputs : StartTask(t, in)

\* options.now is the caller's: between two events it may return anything,
\* the same value again or an earlier one.
ClockValues == (0 - 1) .. (MaxClock + 1)

ClockReturns(t) ==
    /\ microtasks = <<>>
    /\ t # clock
    /\ Commit([Cur EXCEPT !.now = t])

\* One worker, its tasks and close(), under a clock that is free.
IdNext ==
    \/ Drain
    \/ \E t \in ClockValues : ClockReturns(t)
    \/ Connect(1)
    \/ ReadyMessage(1)
    \/ \E n \in DOMAIN requests, ok \in BOOLEAN : ResponseMessage(1, n, ok)
    \/ Close
    \/ \E t \in Tasks, in \in TaskInputs : StartTask(t, in)

\* From here on, writing a control request throws (the ctx does not
\* serialize, or the socket's send throws).
SendBreaks ==
    /\ microtasks = <<>>
    /\ ~sendThrows
    /\ Commit([Cur EXCEPT !.sendThrows = TRUE])

\* Next, plus a send that may start to throw.
PendingNext ==
    \/ Next
    \/ SendBreaks

\* Next, plus the frames a worker may send besides `ready` and responses.
MessageNext ==
    \/ Next
    \/ \E ws \in Socks, data \in RpcData : RpcMessage(ws, data)
    \/ \E ws \in Socks, raw \in MalformedFrames : MalformedMessage(ws, raw)
    \/ \E ws \in Socks, a \in {"run", "collect", "shutdown"} : RequestMessage(ws, a)

\* WorkerNext, plus the runner's RPC traffic and frames that do not decode.
WorkerMessageNext ==
    \/ WorkerNext
    \/ \E l \in Listeners : WorkerSubscribe(l)
    \/ \E l \in Listeners : WorkerUnsubscribe(l)
    \/ \E data \in RpcData : WorkerRpcMessage(data)
    \/ WorkerMalformedMessage(Garbage)

\* The pool and a worker runtime share no state: each is explored with the
\* other one still as constructed.
PoolAtRest ==
    /\ \A w \in Socks : wsState[w] = None
    /\ \A t \in Tasks : taskPc[t] = "idle"
    /\ closeCalls = 0
    /\ testPromise = "pending"

WorkerAtRest == phase = "created"

SystemNext ==
    \/ WorkerAtRest /\ Drain
    \/ WorkerAtRest /\ \E ws \in Socks : Connect(ws)
    \/ WorkerAtRest /\ \E ws \in Socks : ReadyMessage(ws)
    \/ WorkerAtRest /\ \E ws \in Socks, n \in DOMAIN requests, ok \in BOOLEAN :
                           ResponseMessage(ws, n, ok)
    \/ WorkerAtRest /\ \E ws \in Socks : SocketClose(ws)
    \/ WorkerAtRest /\ \E ws \in Socks : SocketError(ws)
    \/ WorkerAtRest /\ \E n \in DOMAIN requests : TimerFires(n)
    \/ WorkerAtRest /\ \E t \in Tasks : WaitTimerFires(t)
    \/ WorkerAtRest /\ \E ok \in BOOLEAN : ServerClosed(ok)
    \/ WorkerAtRest /\ \E ok \in BOOLEAN : ChildExit(ok)
    \/ WorkerAtRest /\ Close
    \/ WorkerAtRest /\ \E t \in Tasks, in \in TaskInputs : StartTask(t, in)
    \/ WorkerAtRest /\ \E ws \in Socks, data \in RpcData : RpcMessage(ws, data)
    \/ WorkerAtRest /\ \E ws \in Socks, raw \in MalformedFrames : MalformedMessage(ws, raw)
    \/ WorkerAtRest /\ \E ws \in Socks, a \in {"run", "collect", "shutdown"} :
                           RequestMessage(ws, a)
    \/ PoolAtRest /\ \E portSet \in BOOLEAN : WorkerRun(portSet)
    \/ PoolAtRest /\ WorkerOpen
    \/ PoolAtRest /\ WorkerConnectError
    \/ PoolAtRest /\ WorkerReadyAck
    \/ PoolAtRest /\ WorkerReadyTimeout
    \/ PoolAtRest /\ \E a \in RequestActions, c \in BOOLEAN : WorkerReceive(a, c)
    \/ PoolAtRest /\ \E r \in hostInFlight, ok \in BOOLEAN : HostSettles(r, ok)
    \/ PoolAtRest /\ WorkerSocketClose
    \/ PoolAtRest /\ WorkerSocketError
    \/ PoolAtRest /\ \E l \in Listeners : WorkerSubscribe(l)
    \/ PoolAtRest /\ \E l \in Listeners : WorkerUnsubscribe(l)
    \/ PoolAtRest /\ \E data \in RpcData : WorkerRpcMessage(data)
    \/ PoolAtRest /\ WorkerMalformedMessage(Garbage)

\* ------------------------------------------------------ VscodePoolWorker
PCur ==
    [start |-> pwStart, startError |-> pwStartError, server |-> pwServer,
     socket |-> pwSocket, ws |-> pwWs, stack |-> pwStack, disposed |-> pwDisposed,
     testRunPromise |-> pwTestRunPromise, stop |-> pwStop,
     stopErrors |-> pwStopErrors, sent |-> pwSent, sendLog |-> pwSendLog]

PAssign(S) ==
    /\ pwStart' = S.start
    /\ pwStartError' = S.startError
    /\ pwServer' = S.server
    /\ pwSocket' = S.socket
    /\ pwWs' = S.ws
    /\ pwStack' = S.stack
    /\ pwDisposed' = S.disposed
    /\ pwTestRunPromise' = S.testRunPromise
    /\ pwStop' = S.stop
    /\ pwStopErrors' = S.stopErrors
    /\ pwSent' = S.sent
    /\ pwSendLog' = S.sendLog

PCommit(S) ==
    /\ PAssign(S)
    /\ UNCHANGED <<poolVars, workerVars, irVars, disposeVars, handlerVars, codecVars, hsVars>>

PwInit ==
    /\ pwStart = "idle"
    /\ pwStartError = None
    /\ pwServer = None
    /\ pwSocket = None
    /\ pwWs = FALSE
    /\ pwStack = <<>>
    /\ pwDisposed = FALSE
    /\ pwTestRunPromise = None
    /\ pwStop = "idle"
    /\ pwStopErrors = {}
    /\ pwSent = <<>>
    /\ pwSendLog = <<>>

\* start() throws: its promise rejects.
StartRejects(S, why) == [S EXCEPT !.start = "rejected", !.startError = why]

\* ws.send(data): written if the socket is OPEN, otherwise not.
PwWsSend(S, what) ==
    IF S.socket = "open" THEN [S EXCEPT !.sent = Append(@, what)] ELSE S

\* this.#stack.use(resource): throws on a disposed stack.
StackUse(S, resource) == [S EXCEPT !.stack = Append(@, resource)]

\* start(), after createWebSocketServer() resolved: use the server,
\* launch the editor, wait for a client.
StartAfterServer(S) ==
    IF S.disposed THEN StartRejects(S, "stack_disposed")
    ELSE [StackUse(S, "server") EXCEPT !.testRunPromise = "pending",
                                       !.start = "awaiting_client"]

\* start(), after waitForWebSocketClient() resolved: use the client, set
\* #ws, wait for the first message or a socket error.
StartAfterClient(S) ==
    IF S.disposed THEN StartRejects(S, "stack_disposed")
    ELSE [StackUse(S, "client") EXCEPT !.ws = TRUE, !.start = "awaiting_message"]

\* start(), after the race of once(ws, 'message') and once(ws, 'error')
\* was won by a message: deserialize, check the type, acknowledge.
StartAfterMessage(S, kind) ==
    CASE kind = "garbage" -> StartRejects(S, "deserialize")
      [] kind = "other" -> StartRejects(S, "not_implemented")
      [] OTHER -> [PwWsSend(S, "ready_ack") EXCEPT !.start = "resolved"]

\* stop(), after disposeAsync() settled: a disposer error is rethrown,
\* otherwise #testRunPromise is awaited if it is set.
StopAfterDispose(S) ==
    IF S.stopErrors # {} THEN [S EXCEPT !.stop = "rejected"]
    ELSE CASE S.testRunPromise = None -> [S EXCEPT !.stop = "resolved"]
           [] S.testRunPromise = "pending" -> [S EXCEPT !.stop = "awaiting_testrun"]
           [] OTHER -> [S EXCEPT !.stop = S.testRunPromise]

\* disposeAsync(): the resources are disposed last-used first, each
\* awaited.  Client: nothing if CLOSED, else close() and wait for 'close'
\* or 'error'.  Server: close(callback) and wait for the callback.
RECURSIVE DisposeNext(_)
DisposeNext(S) ==
    IF S.stack = <<>> THEN StopAfterDispose(S)
    ELSE LET top == S.stack[Len(S.stack)]
             S1 == [S EXCEPT !.stack = SubSeq(@, 1, Len(@) - 1)]
         IN IF top = "client"
            THEN IF S.socket = "closed" THEN DisposeNext(S1)
                 ELSE [S1 EXCEPT !.socket = IF @ = "open" THEN "closing" ELSE @,
                                 !.stop = "disposing_client"]
            ELSE [S1 EXCEPT !.server = "closing", !.stop = "disposing_server"]

PwStartCall ==
    /\ pwStart = "idle"
    /\ PCommit([PCur EXCEPT !.start = "creating_server", !.server = "binding"])

PwServerListening ==
    /\ pwServer = "binding"
    /\ PCommit(StartAfterServer([PCur EXCEPT !.server = "listening"]))

PwServerBindError ==
    /\ pwServer = "binding"
    /\ PCommit(StartRejects([PCur EXCEPT !.server = "failed"], "server_error"))

PwClientConnects ==
    /\ pwServer = "listening"
    /\ pwStart = "awaiting_client"
    /\ PCommit(StartAfterClient([PCur EXCEPT !.socket = "open"]))

\* The first frame from the client: a `ready`, some other request, or
\* data that does not deserialize.
PwMessage(kind) ==
    /\ pwSocket \in {"open", "closing"}
    /\ pwStart = "awaiting_message"
    /\ PCommit(StartAfterMessage(PCur, kind))

\* 'error' on the client socket ('close' follows it).
PwSocketError ==
    /\ pwSocket \in {"open", "closing"}
    /\ LET S1 == [PCur EXCEPT !.socket = "errored"]
           S2 == IF pwStart = "awaiting_message"
                 THEN StartRejects(S1, "socket_error") ELSE S1
       IN PCommit(IF pwStop = "disposing_client"
                  THEN DisposeNext([S2 EXCEPT !.stopErrors = @ \cup {"client"}])
                  ELSE S2)

\* 'close' on the client socket: start() has no listener for it.
PwSocketClose ==
    /\ pwSocket \in {"open", "closing", "errored"}
    /\ LET S1 == [PCur EXCEPT !.socket = "closed"]
       IN PCommit(IF pwStop = "disposing_client" THEN DisposeNext(S1) ELSE S1)

\* The server's close callback; the underlying HTTP server closes once
\* its connections have ended.
PwServerClosed ==
    /\ pwServer = "closing"
    /\ pwSocket \in {None, "closed"}
    /\ LET S1 == [PCur EXCEPT !.server = "closed"]
           S2 == IF pwStart = "awaiting_client"
                 THEN StartRejects(S1, "client_connection") ELSE S1
       IN PCommit(IF pwStop = "disposing_server" THEN DisposeNext(S2) ELSE S2)

\* The editor run promise of runTests settles.
PwTestRunSettles(ok) ==
    /\ pwTestRunPromise = "pending"
    /\ LET S1 == [PCur EXCEPT !.testRunPromise = IF ok THEN "resolved" ELSE "rejected"]
       IN PCommit(IF pwStop = "awaiting_testrun"
                  THEN [S1 EXCEPT !.stop = S1.testRunPromise] ELSE S1)

PwStopCall ==
    /\ pwStop = "idle"
    /\ PCommit(DisposeNext([PCur EXCEPT !.disposed = TRUE]))

\* send(message): throws while #ws is unset, else ws.send.
PwSend ==
    /\ Len(pwSendLog) < MaxSends
    /\ PCommit(IF ~pwWs
               THEN [PCur EXCEPT !.sendLog = Append(@, [at |-> pwStart,
                                                        result |-> "threw"])]
               ELSE [PwWsSend(PCur, "request")
                        EXCEPT !.sendLog = Append(@, [at |-> pwStart,
                                                      result |-> "called"])])

PwNext ==
    \/ PwStartCall
    \/ PwServerListening
    \/ PwServerBindError
    \/ PwClientConnects
    \/ \E kind \in {"ready", "other", "garbage"} : PwMessage(kind)
    \/ PwSocketError
    \/ PwSocketClose
    \/ PwServerClosed
    \/ \E ok \in BOOLEAN : PwTestRunSettles(ok)
    \/ PwStopCall
    \/ PwSend

\* -------------------------------------------------- init-based worker run
IrCur ==
    [pc |-> irPc, error |-> irError, i |-> irI, handShake |-> irHandShake,
     socket |-> irSocket, readySent |-> irReadySent]

IrAssign(S) ==
    /\ irPc' = S.pc
    /\ irError' = S.error
    /\ irI' = S.i
    /\ irHandShake' = S.handShake
    /\ irSocket' = S.socket
    /\ irReadySent' = S.readySent

IrCommit(S) ==
    /\ IrAssign(S)
    /\ UNCHANGED <<poolVars, workerVars, pwVars, disposeVars, handlerVars, codecVars, hsVars>>

IrInit ==
    /\ irPc = "idle"
    /\ irError = None
    /\ irI = 0
    /\ irHandShake = None
    /\ irSocket = None
    /\ irReadySent = 0

\* run() throws: its promise rejects.
RunRejects(S, why) == [S EXCEPT !.pc = "rejected", !.error = why]

\* ws.send(serialize({ type: 'ready' })): written if the socket is OPEN.
SendReady(S) ==
    IF S.socket = "open" THEN [S EXCEPT !.readySent = @ + 1] ELSE S

\* After the loop: init({...}), the worker serves the runner.
AfterReadyLoop(S) == [S EXCEPT !.pc = "serving"]

\* One pass of the loop body from its top, for as long as the race settles
\* without a timer: send `ready`, race handShakePromise against wait(10),
\* break on `ready_ack`, throw if i > 10, else i++ and test i < 11.
RECURSIVE ReadyLoop(_)
ReadyLoop(S) ==
    IF ~(S.i < ReadyAttempts) THEN AfterReadyLoop(S)
    ELSE LET S1 == SendReady(S)
         IN CASE S1.handShake = "pending" -> [S1 EXCEPT !.pc = "racing"]
              [] S1.handShake = "rejected" -> RunRejects(S1, "handshake")
              [] S1.handShake = "ready_ack" -> AfterReadyLoop(S1)
              [] OTHER -> IF S1.i > ReadyAttempts - 1
                          THEN RunRejects(S1, "client_ack_timeout")
                          ELSE ReadyLoop([S1 EXCEPT !.i = @ + 1])

\* The rest of an iteration whose race was won by wait(10) or by a
\* message that is no `ready_ack`.
ReadyLoopContinue(S) ==
    IF S.i > ReadyAttempts - 1
    THEN RunRejects(S, "client_ack_timeout")
    ELSE ReadyLoop([S EXCEPT !.i = @ + 1])

IrRun(addressSet) ==
    /\ irPc = "idle"
    /\ IrCommit(IF addressSet
                THEN [IrCur EXCEPT !.pc = "connecting", !.socket = "connecting"]
                ELSE RunRejects(IrCur, "client_env"))

\* waitForConnection resolves: the handshake listeners are attached and
\* the loop starts.
IrOpen ==
    /\ irPc = "connecting"
    /\ IrCommit(ReadyLoop([IrCur EXCEPT !.socket = "open", !.handShake = "pending"]))

\* waitForConnection rejects: 'error', or 'close' before 'open'.
IrConnectFails(how) ==
    /\ irPc = "connecting"
    /\ IrCommit(RunRejects([IrCur EXCEPT !.socket = "closed"], how))

\* handShakePromise settles with the first frame, and the race that
\* awaits it resumes.
OnHandShakeMessage(S, kind) ==
    LET S1 == [S EXCEPT !.handShake = IF kind = "garbage" THEN "rejected" ELSE kind]
    IN IF S.pc # "racing" THEN S1
       ELSE CASE kind = "garbage" -> RunRejects(S1, "handshake")
              [] kind = "ready_ack" -> AfterReadyLoop(S1)
              [] OTHER -> ReadyLoopContinue(S1)

\* The first frame from the pool: `ready_ack`, some other request, or
\* data that does not deserialize.
IrMessage(kind) ==
    /\ irSocket = "open"
    /\ irHandShake = "pending"
    /\ IrCommit(OnHandShakeMessage(IrCur, kind))

\* The timer of wait(10) fires before any message has arrived.
IrWaitElapsed ==
    /\ irPc = "racing"
    /\ IrCommit(ReadyLoopContinue(IrCur))

IrSocketError ==
    /\ irSocket = "open"
    /\ LET S1 == [IrCur EXCEPT !.socket = "errored"]
           S2 == IF irHandShake = "pending" THEN [S1 EXCEPT !.handShake = "rejected"] ELSE S1
       IN IrCommit(IF irHandShake = "pending" /\ irPc = "racing"
                   THEN RunRejects(S2, "handshake") ELSE S2)

IrSocketClose ==
    /\ irSocket \in {"open", "errored"}
    /\ IrCommit([IrCur EXCEPT !.socket = "closed"])

\* init's teardown callback resolves run().
IrTeardown ==
    /\ irPc = "serving"
    /\ IrCommit([IrCur EXCEPT !.pc = "resolved"])

IrNext ==
    \/ \E addressSet \in BOOLEAN : IrRun(addressSet)
    \/ IrOpen
    \/ \E how \in {"connect_error", "client_connection"} : IrConnectFails(how)
    \/ \E kind \in {"ready_ack", "other", "garbage"} : IrMessage(kind)
    \/ IrWaitElapsed
    \/ IrSocketError
    \/ IrSocketClose
    \/ IrTeardown

\* -------------- VscodePoolWorker.start and the init-based run, together
HsInit ==
    /\ hsPoolGot = 0
    /\ hsWorkerGot = 0
    /\ hsOn = FALSE
    /\ hsHeard = <<>>

\* The editor launched by start() loads the worker, which reads the
\* address start() put in its environment.
HsWorkerRun ==
    /\ pwTestRunPromise = "pending"
    /\ IrRun(TRUE)

\* The worker's socket opens on the listening server.
HsWorkerOpen ==
    /\ pwServer = "listening"
    /\ IrOpen

\* The server's 'connection' event for the worker's socket.
HsAccept ==
    /\ irSocket \in {"connecting", "open"}
    /\ PwClientConnects

\* A `ready` frame of the worker arrives at the pool: start()'s
\* once(ws, 'message') takes it while start() waits for it; afterwards
\* the socket's 'message' listeners are those the runner registered.
HsReadyArrives ==
    /\ hsPoolGot < irReadySent
    /\ pwWs
    /\ pwSocket = "open"
    /\ hsPoolGot' = hsPoolGot + 1
    /\ IF pwStart = "awaiting_message"
       THEN /\ PAssign(StartAfterMessage(PCur, "ready"))
            /\ hsHeard' = hsHeard
       ELSE /\ UNCHANGED pwVars
            /\ hsHeard' = IF hsOn THEN Append(hsHeard, "ready") ELSE hsHeard
    /\ UNCHANGED <<hsWorkerGot, hsOn>>
    /\ UNCHANGED <<poolVars, workerVars, irVars, disposeVars, handlerVars, codecVars>>

\* A frame of the pool arrives at the worker: the handshake's
\* once(ws, 'message') takes the first one.
HsPoolFrameArrives ==
    /\ hsWorkerGot < Len(pwSent)
    /\ irSocket = "open"
    /\ hsWorkerGot' = hsWorkerGot + 1
    /\ LET frame == pwSent[hsWorkerGot + 1]
       IN IF irHandShake = "pending"
          THEN IrAssign(OnHandShakeMessage(IrCur, IF frame = "ready_ack"
                                                  THEN "ready_ack" ELSE "other"))
          ELSE UNCHANGED irVars
    /\ UNCHANGED <<hsPoolGot, hsOn, hsHeard>>
    /\ UNCHANGED <<poolVars, workerVars, pwVars, disposeVars, handlerVars, codecVars>>

\* The runner, holding the started worker, calls on('message', callback).
HsRunnerOn ==
    /\ pwStart = "resolved"
    /\ pwWs
    /\ ~hsOn
    /\ hsOn' = TRUE
    /\ UNCHANGED <<hsPoolGot, hsWorkerGot, hsHeard>>
    /\ UNCHANGED <<poolVars, workerVars, pwVars, irVars, disposeVars, handlerVars, codecVars>>

HandshakeNext ==
    \/ PwStartCall
    \/ PwServerListening
    \/ HsWorkerRun
    \/ HsWorkerOpen
    \/ HsAccept
    \/ HsReadyArrives
    \/ HsPoolFrameArrives
    \/ IrWaitElapsed
    \/ HsRunnerOn
    \/ PwSend

\* ------------------------------------------------ utils/disposable.ts
\* What a dispose function does when it is invoked: return, throw, or
\* release the handle it is disposing before it returns.
DisposeBehaviours == {"returns", "throws", "releases"}

\* What the successive invocations of the dispose function do within one
\* release call; an invocation beyond the plan returns.
DisposePlans == UNION {[1..n -> DisposeBehaviours] : n \in 0..(MaxReentry + 1)}

\* [Symbol.dispose]() of toDispose: `if (disposed) return; disposeFn(value);
\* disposed = true`. S is [disposed, calls, threw].
RECURSIVE SymbolDispose(_, _)
SymbolDispose(S, plan) ==
    IF S.disposed
    THEN [S EXCEPT !.threw = FALSE]
    ELSE LET S1 == [S EXCEPT !.calls = @ + 1]
             how == IF plan = <<>> THEN "returns" ELSE Head(plan)
         IN CASE how = "returns" -> [S1 EXCEPT !.disposed = TRUE, !.threw = FALSE]
              [] how = "throws" -> [S1 EXCEPT !.threw = TRUE]
              [] OTHER ->
                    \* the nested release runs to its end inside disposeFn;
                    \* what it throws leaves disposeFn as well
                    LET S2 == SymbolDispose(S1, Tail(plan))
                    IN IF S2.threw THEN S2 ELSE [S2 EXCEPT !.disposed = TRUE]

\* [Symbol.asyncDispose]() of toAsyncDispose up to its await:
\* `if (disposingPromise == null) disposingPromise = disposeFn(value);
\* await disposingPromise`. S is [disposing, calls, promises, releases].
\* `let disposingPromise` while it is undefined, and what a release awaits
\* when disposeFn threw instead of returning a promise.
NoPromise == 0

RECURSIVE SymbolAsyncDispose(_, _)
SymbolAsyncDispose(S, plan) ==
    IF S.disposing # NoPromise
    THEN [S EXCEPT !.releases = Append(@, [awaits |-> S.disposing])]
    ELSE LET S1 == [S EXCEPT !.calls = @ + 1]
             how == IF plan = <<>> THEN "returns" ELSE Head(plan)
             \* a nested release is an async call: it never throws into
             \* disposeFn, which goes on to return its own promise
             S2 == IF how = "releases" THEN SymbolAsyncDispose(S1, Tail(plan)) ELSE S1
             p == Len(S2.promises) + 1
         IN IF how = "throws"
            THEN \* disposeFn threw before it returned a promise: the
                 \* assignment never happens and the call rejects
                 [S1 EXCEPT !.releases = Append(@, [awaits |-> NoPromise])]
            ELSE [S2 EXCEPT !.promises = Append(@, "pending"),
                            !.disposing = p,
                            !.releases = Append(@, [awaits |-> p])]

DisposeInit ==
    /\ tdDisposed = FALSE
    /\ tdCalls = 0
    /\ tdLog = <<>>
    /\ adDisposing = NoPromise
    /\ adCalls = 0
    /\ adPromises = <<>>
    /\ adReleases = <<>>

\* handle[Symbol.dispose]()
TdRelease(plan) ==
    /\ Len(tdLog) < MaxReleases
    /\ LET S == SymbolDispose([disposed |-> tdDisposed, calls |-> tdCalls,
                               threw |-> FALSE], plan)
       IN /\ tdDisposed' = S.disposed
          /\ tdCalls' = S.calls
          /\ tdLog' = Append(tdLog, [plan |-> plan, threw |-> S.threw])
    /\ UNCHANGED <<adDisposing, adCalls, adPromises, adReleases>>
    /\ UNCHANGED <<poolVars, workerVars, pwVars, irVars, handlerVars, codecVars, hsVars>>

\* handle[Symbol.asyncDispose]()
AdRelease(plan) ==
    /\ Len(adReleases) < MaxReleases
    /\ LET S == SymbolAsyncDispose([disposing |-> adDisposing, calls |-> adCalls,
                                    promises |-> adPromises,
                                    releases |-> adReleases], plan)
       IN /\ Len(S.releases) <= MaxReleases
          /\ adDisposing' = S.disposing
          /\ adCalls' = S.calls
          /\ adPromises' = S.promises
          /\ adReleases' = S.releases
    /\ UNCHANGED <<tdDisposed, tdCalls, tdLog>>
    /\ UNCHANGED <<poolVars, workerVars, pwVars, irVars, handlerVars, codecVars, hsVars>>

\* A promise the dispose function returned settles.
AdSettles(p, ok) ==
    /\ p \in DOMAIN adPromises
    /\ adPromises[p] = "pending"
    /\ adPromises' = [adPromises EXCEPT ![p] = IF ok THEN "fulfilled" ELSE "rejected"]
    /\ UNCHANGED <<adDisposing, adCalls, adReleases>>
    /\ UNCHANGED <<tdDisposed, tdCalls, tdLog>>
    /\ UNCHANGED <<poolVars, workerVars, pwVars, irVars, handlerVars, codecVars, hsVars>>

\* How a [Symbol.asyncDispose]() call has ended so far.
ReleaseOutcome(r) ==
    IF r.awaits = NoPromise THEN "rejected"
    ELSE IF adPromises[r.awaits] = "fulfilled" THEN "resolved" ELSE adPromises[r.awaits]

DisposableNext ==
    \/ \E plan \in DisposePlans : TdRelease(plan)
    \/ \E plan \in DisposePlans : AdRelease(plan)
    \/ \E p \in 1..(MaxReleases * (MaxReentry + 2)), ok \in BOOLEAN : AdSettles(p, ok)

\* -------------------------------------------------- utils/handlers.ts
\* emitter.off(event, handler): the listener added last with that handler
\* goes, whether it was added with on() or with once().
RECURSIVE EmitterOff(_, _)
EmitterOff(listeners, owner) ==
    IF listeners = <<>> THEN <<>>
    ELSE LET n == Len(listeners)
         IN IF listeners[n].owner = owner
            THEN SubSeq(listeners, 1, n - 1)
            ELSE Append(EmitterOff(SubSeq(listeners, 1, n - 1), owner), listeners[n])

\* The whole adapter state as one record.
HCur ==
    [listeners |-> emListeners, emitted |-> emEmitted, promise |-> hoPromise,
     value |-> hoValue, onceDisposed |-> hoDisposed, created |-> hnCreated, maxBuffer |-> hnMaxBuffer,
     done |-> hnDone, onDisposed |-> hnDisposed, buffer |-> hnBuffer,
     pending |-> hnPending, results |-> hnResults]

HCommit(S) ==
    /\ emListeners' = S.listeners
    /\ emEmitted' = S.emitted
    /\ hoPromise' = S.promise
    /\ hoValue' = S.value
    /\ hoDisposed' = S.onceDisposed
    /\ hnCreated' = S.created
    /\ hnMaxBuffer' = S.maxBuffer
    /\ hnDone' = S.done
    /\ hnDisposed' = S.onDisposed
    /\ hnBuffer' = S.buffer
    /\ hnPending' = S.pending
    /\ hnResults' = S.results
    /\ UNCHANGED <<poolVars, workerVars, pwVars, irVars, disposeVars, codecVars, hsVars>>

HandlerInit ==
    /\ emListeners = <<>>
    /\ emEmitted = 0
    /\ hoPromise = "none"
    /\ hoValue = 0
    /\ hoDisposed = FALSE
    /\ hnCreated = FALSE
    /\ hnMaxBuffer = 0
    /\ hnDone = FALSE
    /\ hnDisposed = FALSE
    /\ hnBuffer = <<>>
    /\ hnPending = <<>>
    /\ hnResults = <<>>

\* An IteratorResult; value 0 stands for undefined.
IterResult(value, done) == [settled |-> TRUE, value |-> value, done |-> done]

Waiting == [settled |-> FALSE, value |-> 0, done |-> FALSE]

\* handleOnce's handler: reject or resolve the promise with the arguments.
OnceHandler(S, value, rejects) ==
    IF S.promise = "pending"
    THEN [S EXCEPT !.promise = IF rejects THEN "rejected" ELSE "resolved",
                   !.value = value]
    ELSE S

\* handleOn's handler: hand the event to the consumer waiting longest, or
\* buffer it, dropping the oldest buffered event at capacity.
OnHandler(S, value, maxBuffer) ==
    IF S.pending # <<>>
    THEN [S EXCEPT !.pending = Tail(@),
                   !.results[Head(S.pending)] = IterResult(value, FALSE)]
    ELSE LET \* buffer.shift() on an empty array removes nothing
             kept == IF Len(S.buffer) >= maxBuffer /\ S.buffer # <<>>
                     THEN Tail(S.buffer) ELSE S.buffer
         IN [S EXCEPT !.buffer = Append(kept, value)]

\* handleOn's dispose: once only; the listener goes and every waiting
\* consumer is resolved with done.
DisposeOnKeepsListener(S) ==
    IF S.done THEN S
    ELSE [S EXCEPT !.done = TRUE,
                   !.pending = <<>>,
                   !.results = [i \in DOMAIN S.results |->
                                   IF \E k \in DOMAIN S.pending : S.pending[k] = i
                                   THEN IterResult(0, TRUE) ELSE S.results[i]]]

DisposeOnLeavesWaiting(S) ==
    IF S.done THEN S
    ELSE [S EXCEPT !.done = TRUE,
                   !.listeners = EmitterOff(@, "on")]

DisposeOn(S) ==
    IF S.done THEN S
    ELSE [S EXCEPT !.done = TRUE,
                   !.listeners = EmitterOff(@, "on"),
                   !.pending = <<>>,
                   !.results = [i \in DOMAIN S.results |->
                                   IF \E k \in DOMAIN S.pending : S.pending[k] = i
                                   THEN IterResult(0, TRUE) ELSE S.results[i]]]

\* emitter.emit(event, value): the listeners present when it starts are
\* called in the order added; one added with once() is removed before its
\* handler runs.
RECURSIVE EmitTo(_, _, _)
EmitTo(S, todo, value) ==
    IF todo = <<>> THEN S
    ELSE LET l == Head(todo)
             S1 == IF l.once THEN [S EXCEPT !.listeners = EmitterOff(@, l.owner)] ELSE S
             S2 == IF l.owner = "once"
                   THEN OnceHandler(S1, value, l.rejects)
                   ELSE OnHandler(S1, value, S1.maxBuffer)
         IN EmitTo(S2, Tail(todo), value)

\* handleOnce(emitter, event, rejects)
HandleOnceCall(rejects) ==
    /\ hoPromise = "none"
    /\ HCommit([HCur EXCEPT !.promise = "pending",
                            !.listeners = Append(@, [owner |-> "once", once |-> TRUE,
                                                     rejects |-> rejects])])

\* handleOn(emitter, event, maxBuffer)
HandleOnCall(maxBuffer) ==
    /\ ~hnCreated
    /\ HCommit([HCur EXCEPT !.created = TRUE,
                            !.maxBuffer = maxBuffer,
                            !.listeners = Append(@, [owner |-> "on", once |-> FALSE,
                                                     rejects |-> FALSE])])

Emit ==
    /\ emEmitted < MaxEvents
    /\ HCommit(EmitTo([HCur EXCEPT !.emitted = @ + 1], emListeners, emEmitted + 1))

\* [Symbol.dispose]() of the handleOnce handle
HoRelease ==
    /\ hoPromise # "none"
    /\ HCommit(IF hoDisposed THEN HCur
               ELSE [HCur EXCEPT !.listeners = EmitterOff(@, "once"),
                                 !.onceDisposed = TRUE])

\* [Symbol.dispose]() of the handleOn handle
HnRelease ==
    /\ hnCreated
    /\ HCommit(IF hnDisposed THEN HCur
               ELSE [DisposeOn(HCur) EXCEPT !.onDisposed = TRUE])

\* iterator.return()
HnReturn ==
    /\ hnCreated
    /\ HCommit(DisposeOn(HCur))

\* iterator.next()
HnNext ==
    /\ hnCreated
    /\ Len(hnResults) < MaxNext
    /\ HCommit(IF hnDone
               THEN [HCur EXCEPT !.results = Append(@, IterResult(0, TRUE))]
               ELSE IF hnBuffer # <<>>
               THEN [HCur EXCEPT !.results = Append(@, IterResult(Head(hnBuffer), FALSE)),
                                 !.buffer = Tail(@)]
               ELSE [HCur EXCEPT !.results = Append(@, Waiting),
                                 !.pending = Append(@, Len(hnResults) + 1)])

HandlerNext ==
    \/ \E rejects \in BOOLEAN : HandleOnceCall(rejects)
    \/ \E maxBuffer \in 0..MaxBuffer : HandleOnCall(maxBuffer)
    \/ Emit
    \/ HoRelease
    \/ HnRelease
    \/ HnReturn
    \/ HnNext

\* --------------------------------------------------------------- ipc.ts
\* A JavaScript value as a variable or a field holds it: a primitive, or a
\* reference to object r of the heap.
Prim(t, v) == [t |-> t, v |-> v, r |-> 0]
ObjRef(r) == [t |-> "obj", v |-> "", r |-> r]
Undefined == Prim("undef", "")

\* The keys of the payload's objects, in insertion order.
PayloadKeys == <<"a", "b">>

PrimCells == {Prim("null", ""), Prim("num", "1"), Prim("str", "control")}

\* What a field of one of n objects may hold; undefined stands for a key
\* that is not there (the serializer leaves such keys out).
CellsOver(n) == PrimCells \cup {Undefined} \cup {ObjRef(r) : r \in 1..n}

\* The heaps of n objects: cycles and shared objects included.
HeapsOf(n) == [1..n -> [{PayloadKeys[k] : k \in DOMAIN PayloadKeys} -> CellsOver(n)]]

\* The own enumerable fields of an object that JSON.stringify writes.
Defined(fields) ==
    LET Test(p) == p[2].t # "undef"
    IN SelectSeq(fields, Test)

\* { channel, payload }
EnvelopeFields(channel, payload) ==
    Defined(<< <<"channel", Prim("str", channel)>>, <<"payload", payload>> >>)

ObjectFields(heap, r) ==
    Defined([k \in DOMAIN PayloadKeys |-> <<PayloadKeys[k], heap[r][PayloadKeys[k]]>>])

\* A cell of the flat array that points at entry i.
FlatRef(i) == [t |-> "ref", v |-> "", r |-> i]

NeedsRefObjectsOnly(cell) == cell.t = "obj"

\* flatted's replacer: objects and strings are stored once, as entries of
\* their own, and written as the index of that entry.
NeedsRef(cell) == cell.t \in {"obj", "str"}

\* known.get(value) || set(known, input, value)
Intern(input, cell) ==
    IF \E k \in DOMAIN input : input[k] = cell THEN input ELSE Append(input, cell)

IndexOf(input, cell) == CHOOSE k \in DOMAIN input : input[k] = cell

RECURSIVE InternAll(_, _)
InternAll(input, fields) ==
    IF fields = <<>> THEN input
    ELSE InternAll(IF NeedsRef(Head(fields)[2]) THEN Intern(input, Head(fields)[2])
                   ELSE input,
                   Tail(fields))

\* flatted stringify: the loop over `input`, writing entry i.
RECURSIVE Flatten(_, _, _, _, _, _)
Flatten(heap, channel, payload, input, i, out) ==
    IF i > Len(input) THEN out
    ELSE LET e == input[i]
         IN IF e.t = "str"
            THEN Flatten(heap, channel, payload, input, i + 1,
                         Append(out, [t |-> "str", v |-> e.v, f |-> <<>>]))
            ELSE LET fs == IF e.r = 0 THEN EnvelopeFields(channel, payload)
                                      ELSE ObjectFields(heap, e.r)
                     input2 == InternAll(input, fs)
                     entry == [t |-> "obj", v |-> "",
                               f |-> [k \in DOMAIN fs |->
                                        <<fs[k][1],
                                          IF NeedsRef(fs[k][2])
                                          THEN FlatRef(IndexOf(input2, fs[k][2]))
                                          ELSE fs[k][2]>>]]
                 IN Flatten(heap, channel, payload, input2, i + 1, Append(out, entry))

\* Text on the wire: a flat array, or something that is no JSON.
JsonText(flat) == [form |-> "json", flat |-> flat]
NoJson == [form |-> "garbage", flat |-> <<>>]

\* encodeEnvelope(channel, payload) = stringify({ channel, payload })
EncodeEnvelope(channel, payload, heap) ==
    JsonText(Flatten(heap, channel, payload, <<ObjRef(0)>>, 1, <<>>))

\* flatted parse, one field: a string in a field is the index of an entry
\* (an index that names no entry gives undefined); the entry is a string or
\* an object, revived in place.
Resolve(flat, cell) ==
    CASE cell.t = "ref" ->
            IF cell.r \in DOMAIN flat
            THEN IF flat[cell.r].t = "str" THEN Prim("str", flat[cell.r].v)
                 ELSE ObjRef(cell.r)
            ELSE Undefined
      [] cell.t = "str" -> Undefined
      [] OTHER -> cell

HasKey(fields, key) == \E k \in DOMAIN fields : fields[k][1] = key

FieldOf(flat, fields, key) ==
    IF HasKey(fields, key)
    THEN Resolve(flat, fields[CHOOSE k \in DOMAIN fields : fields[k][1] = key][2])
    ELSE Undefined

\* parse(text), seen through the keys decodeEnvelope looks at.
ParsedFrame(text) ==
    IF text.form # "json" \/ text.flat = <<>>
    THEN Garbage
    ELSE IF text.flat[1].t # "obj"
    THEN Garbage
    ELSE LET fs == text.flat[1].f
             c == FieldOf(text.flat, fs, "channel")
         IN Frame("object", HasKey(fs, "channel"),
                  IF c.t = "str" THEN c.v ELSE None,
                  HasKey(fs, "payload"), NoPayload)

\* decodeEnvelope(raw) on text: the envelope it returns, its payload as the
\* parsed text holds it.
DecodeText(text) ==
    LET d == DecodeEnvelope(ParsedFrame(text))
    IN [ok |-> d.ok, channel |-> d.channel,
        payload |-> IF d.ok THEN FieldOf(text.flat, text.flat[1].f, "payload")
                    ELSE Undefined]

CodecInit ==
    /\ cdStage = "idle"
    /\ cdChannel = None
    /\ cdPayload = Undefined
    /\ cdHeap = <<>>
    /\ cdText = NoJson
    /\ cdOut = [ok |-> FALSE, channel |-> None, payload |-> Undefined]

\* Texts a peer may send that encodeEnvelope did not make.
WireTexts ==
    {NoJson,
     JsonText(<<>>),
     JsonText(<<[t |-> "str", v |-> "control", f |-> <<>>]>>),
     JsonText(<<[t |-> "obj", v |-> "", f |-> <<>>]>>),
     JsonText(<<[t |-> "obj", v |-> "", f |-> << <<"payload", Prim("num", "1")>> >>]>>),
     JsonText(<<[t |-> "obj", v |-> "", f |-> << <<"channel", FlatRef(2)>> >>],
                [t |-> "str", v |-> "control", f |-> <<>>]>>),
     JsonText(<<[t |-> "obj", v |-> "", f |-> << <<"channel", FlatRef(2)>> >>],
                [t |-> "str", v |-> "rpc", f |-> <<>>]>>),
     JsonText(<<[t |-> "obj", v |-> "",
                 f |-> << <<"channel", FlatRef(2)>>, <<"payload", Prim("null", "")>> >>],
                [t |-> "str", v |-> "banana", f |-> <<>>]>>),
     JsonText(<<[t |-> "obj", v |-> "",
                 f |-> << <<"channel", Prim("num", "1")>>, <<"payload", Prim("null", "")>> >>]>>),
     JsonText(<<[t |-> "obj", v |-> "",
                 f |-> << <<"channel", FlatRef(2)>>, <<"payload", FlatRef(3)>> >>],
                [t |-> "str", v |-> "rpc", f |-> <<>>],
                [t |-> "obj", v |-> "", f |-> <<>>]>>)}

\* encodeEnvelope(channel, payload) is called.
CodecEncode(channel, heap, payload) ==
    /\ cdStage = "idle"
    /\ cdStage' = "encoded"
    /\ cdChannel' = channel
    /\ cdPayload' = payload
    /\ cdHeap' = heap
    /\ cdText' = EncodeEnvelope(channel, payload, heap)
    /\ UNCHANGED cdOut
    /\ UNCHANGED <<poolVars, workerVars, pwVars, irVars, disposeVars, handlerVars, hsVars>>

\* A text arrives from the peer.
CodecReceive(text) ==
    /\ cdStage = "idle"
    /\ cdStage' = "received"
    /\ cdText' = text
    /\ UNCHANGED <<cdChannel, cdPayload, cdHeap, cdOut>>
    /\ UNCHANGED <<poolVars, workerVars, pwVars, irVars, disposeVars, handlerVars, hsVars>>

\* decodeEnvelope(text) is called.
CodecDecode ==
    /\ cdStage \in {"encoded", "received"}
    /\ cdStage' = "decoded"
    /\ cdOut' = DecodeText(cdText)
    /\ UNCHANGED <<cdChannel, cdPayload, cdHeap, cdText>>
    /\ UNCHANGED <<poolVars, workerVars, pwVars, irVars, disposeVars, handlerVars, hsVars>>

CodecNext ==
    \/ \E channel \in {"control", "rpc"}, n \in 0..MaxObjects :
          \E heap \in HeapsOf(n), payload \in CellsOver(n) :
             CodecEncode(channel, heap, payload)
    \/ \E text \in WireTexts : CodecReceive(text)
    \/ CodecDecode

Init ==
    /\ PoolInit /\ WorkerInit /\ PwInit /\ IrInit
    /\ DisposeInit /\ HandlerInit /\ CodecInit /\ HsInit

Spec == Init /\ [][Next]_vars

MessageSpec == Init /\ [][MessageNext]_vars

SystemSpec == Init /\ [][SystemNext]_vars

WorkerSpec == Init /\ [][WorkerNext]_vars

PwSpec == Init /\ [][PwNext]_vars

IrSpec == Init /\ [][IrNext]_vars

IdSpec == Init /\ [][IdNext]_vars

PendingSpec == Init /\ [][PendingNext]_vars

DisposableSpec == Init /\ [][DisposableNext]_vars

HandlerSpec == Init /\ [][HandlerNext]_vars

CodecSpec == Init /\ [][CodecNext]_vars

HandshakeSpec == Init /\ [][HandshakeNext]_vars

\* Every event that can happen does happen sooner or later: the socket
\* that is closing closes, the client speaks, stop() is called.
PwLiveSpec == PwSpec /\ WF_vars(PwNext)

\* The host's run/collect promises settle (the condition the worker's
\* response guarantee is stated under).
WorkerLiveSpec ==
    WorkerSpec /\ WF_vars(\E r \in hostInFlight, ok \in BOOLEAN : HostSettles(r, ok))

\* ------------------------------------------------------------ properties
\* C1: a control response with id X arriving on a connection settles
\* exactly the request pending there under X -- resolved when success is
\* true, rejected with the worker's error when it is false -- and every
\* other request, pending or not, is left as it was, whatever the number
\* of pending requests and the order their responses arrive in.
ResponseSettlesOnlyItsRequest ==
    [][\A ws \in Socks : \A n \in DOMAIN requests : \A ok \in BOOLEAN :
          ResponseMessage(ws, n, ok) =>
             LET r == requests[n]
             IN /\ r.id \in pending[ws] =>
                     /\ requests'[n].status = IF ok THEN "resolved" ELSE "rejected"
                     /\ requests'[n].error = IF ok THEN NoError ELSE WorkerError
                /\ r.id \notin pending[ws] => requests'[n] = r
                /\ \A m \in DOMAIN requests : m # n => requests'[m] = requests[m]
                /\ \A w \in Socks :
                     pending'[w] = IF w = ws THEN pending[w] \ {r.id} ELSE pending[w]
      ]_vars

\* Two requests pending on one connection were answered in reverse order:
\* the later one is resolved while the earlier one is still pending.
ResponseOutOfOrderReached ==
    \E n \in DOMAIN requests : \E m \in DOMAIN requests :
        /\ m < n
        /\ requests[m].ws = requests[n].ws
        /\ requests[n].status = "resolved"
        /\ requests[m].status = "pending"
        /\ requests[m].id \in pending[requests[m].ws]

\* C2: when a connection's socket closes with k >= 1 control requests
\* pending on it, all k are rejected with the worker-disconnected error and
\* the connection's pending map is empty afterwards (and stays empty).
SocketCloseRejectsAllPending ==
    /\ [][\A ws \in Socks :
            SocketClose(ws) =>
               /\ \A n \in DOMAIN requests :
                     requests[n].id \in pending[ws] =>
                        /\ requests'[n].status = "rejected"
                        /\ requests'[n].error = DisconnectedError
               /\ pending'[ws] = {}
        ]_vars
    /\ [](\A ws \in Socks : wsState[ws] = "closed" => pending[ws] = {})

\* A socket closed with two requests pending on it; both carry the
\* disconnected error.
DisconnectedManyReached ==
    \E ws \in Socks :
        /\ wsState[ws] = "closed"
        /\ pending[ws] = {}
        /\ Cardinality({n \in DOMAIN requests :
                           /\ requests[n].ws = ws
                           /\ requests[n].status = "rejected"
                           /\ requests[n].error = DisconnectedError}) >= 2

\* C3: when the timer of an unanswered control request fires, that request
\* is rejected with a timeout error naming its action, no other request
\* changes, its pending entry is removed and the socket's state is not
\* touched; requests issued on the connection afterwards are settled by
\* their responses as usual.
TimeoutRejectsOnlyItsRequest ==
    [][\A n \in DOMAIN requests :
          (TimerFires(n) /\ requests[n].status = "pending") =>
             LET r == requests[n]
             IN /\ requests'[n].status = "rejected"
                /\ requests'[n].error = Err("timeout", r.action)
                /\ \A m \in DOMAIN requests : m # n => requests'[m] = requests[m]
                /\ \A w \in Socks :
                     pending'[w] = IF w = r.ws THEN pending[w] \ {r.id} ELSE pending[w]
                /\ wsState' = wsState
      ]_vars

\* A request issued on a connection after an earlier request there had
\* timed out was resolved by its response, the socket still open.
ResolvedAfterTimeoutReached ==
    \E n \in DOMAIN requests :
        /\ requests[n].afterTimeout
        /\ requests[n].status = "resolved"
        /\ wsState[requests[n].ws] = "open"
        /\ \E m \in DOMAIN requests :
              /\ m < n
              /\ requests[m].ws = requests[n].ws
              /\ requests[m].error = Err("timeout", requests[m].action)

\* The control responses the worker has written, in the order written.
ResponsesSent == SelectSeq(workerSent, LAMBDA m : m.kind = "response")

\* Position of the request with this id in the order of arrival.
ReceivedAt(id) == CHOOSE k \in DOMAIN received : received[k].id = id

\* C4: the worker writes its control responses in the order the requests
\* were received: when request A was received before request B, the
\* response to A precedes the response to B, also when B arrived while
\* A's host call was still running.
ResponsesInArrivalOrder ==
    \A i \in DOMAIN ResponsesSent : \A j \in DOMAIN ResponsesSent :
        i < j => ReceivedAt(ResponsesSent[i].id) < ReceivedAt(ResponsesSent[j].id)

\* Two requests have been answered, the second of which arrived while the
\* host call of the first was still in flight.
QueuedBehindAnsweredReached ==
    \E i \in DOMAIN ResponsesSent : \E j \in DOMAIN ResponsesSent :
        /\ i < j
        /\ received[ReceivedAt(ResponsesSent[j].id)].busy
        /\ \E h \in DOMAIN hostCalls : hostCalls[h].id = ResponsesSent[i].id
        /\ ReceivedAt(ResponsesSent[j].id) = ReceivedAt(ResponsesSent[i].id) + 1

\* C5: at most one run/collect host call is in flight at any time, host
\* calls start in the order their requests arrived, and the response to a
\* request that reached the host is written only once its host promise
\* has settled.
OneHostCallAtATime ==
    /\ Cardinality(hostInFlight) <= 1
    /\ \A h \in DOMAIN hostCalls : \A k \in DOMAIN hostCalls :
          h < k => ReceivedAt(hostCalls[h].id) < ReceivedAt(hostCalls[k].id)
    /\ \A i \in DOMAIN ResponsesSent :
          \A r \in hostInFlight : r.id # ResponsesSent[i].id
    /\ \A i \in DOMAIN ResponsesSent :
          LET r == received[ReceivedAt(ResponsesSent[i].id)]
          IN (r.action # "shutdown" /\ r.ctxOk) =>
                \E h \in DOMAIN hostCalls : hostCalls[h].id = r.id

\* A second host call is running after the first one settled and was
\* answered, with a third request waiting behind it.
SecondHostCallReached ==
    /\ Len(hostCalls) = 2
    /\ Cardinality(hostInFlight) = 1
    /\ commandQueue # <<>>
    /\ \E i \in DOMAIN ResponsesSent : ResponsesSent[i].id = hostCalls[1].id

Responded(id) == \E i \in DOMAIN ResponsesSent : ResponsesSent[i].id = id

\* C6: every run, collect or shutdown request the worker receives is
\* eventually answered, unless the socket stops being open first, and no
\* request id is ever answered twice -- given that every host promise
\* settles, and also when a request queued before it failed.
EveryRequestAnsweredOnce ==
    /\ \A k \in 1..MaxWorkerRequests :
          (Len(received) >= k /\ received[k].action \in {"run", "collect", "shutdown"})
             ~> (Responded(k) \/ socketState # "open")
    /\ [](\A i \in DOMAIN ResponsesSent : \A j \in DOMAIN ResponsesSent :
             ResponsesSent[i].id = ResponsesSent[j].id => i = j)

\* A request was answered with success after the request queued before it
\* had failed in the host, the socket still open.
AnsweredAfterFailureReached ==
    /\ socketState = "open"
    /\ \E i \in DOMAIN ResponsesSent : \E j \in DOMAIN ResponsesSent :
          /\ i < j
          /\ ~ResponsesSent[i].success
          /\ ResponsesSent[j].success
          /\ received[ReceivedAt(ResponsesSent[i].id)].ctxOk
          /\ received[ReceivedAt(ResponsesSent[j].id)].busy

\* Index of the first acknowledgement written on the socket (0 if none).
FirstAck(ws) ==
    LET acks == {i \in DOMAIN sent[ws] : sent[ws][i].kind = "ack"}
    IN IF acks = {} THEN 0 ELSE CHOOSE i \in acks : \A j \in acks : i <= j

\* C7: the `ready` request of a connection that is not yet ready marks it
\* ready, moves it among the clients and writes an acknowledgement echoing
\* the id of the `ready` request; a run, collect or shutdown request is
\* never written on a connection before that acknowledgement.
ReadyAcknowledgedBeforeRequests ==
    /\ [][\A ws \in Socks :
            (ReadyMessage(ws) /\ ~isReady[ws]) =>
               /\ isReady'[ws]
               /\ ws \in SeqToSet(clients')
               /\ ws \notin SeqToSet(pendingConnections')
               /\ wsState[ws] = "open" =>
                     sent'[ws] = Append(sent[ws], [kind |-> "ack", id |-> ReadyId(ws),
                                                   action |-> "ready"])
        ]_vars
    /\ [](\A ws \in Socks : \A i \in DOMAIN sent[ws] :
             sent[ws][i].kind = "request" =>
                /\ sent[ws][i].action \in {"run", "collect", "shutdown"}
                /\ FirstAck(ws) # 0
                /\ FirstAck(ws) < i
                /\ isReady[ws])

\* A connection was acknowledged and a run or collect request went out on
\* it right after.
RequestAfterAckReached ==
    \E ws \in Socks :
        /\ Len(sent[ws]) >= 2
        /\ sent[ws][1] = [kind |-> "ack", id |-> ReadyId(ws), action |-> "ready"]
        /\ sent[ws][2].kind = "request"
        /\ sent[ws][2].action \in {"run", "collect"}

\* Positions of a step of the current close() call in its log.
StepAt(step, c) ==
    {i \in DOMAIN closeSteps : closeSteps[i] = [step |-> step, conn |-> c]}

AllBefore(a, b) == \A i \in a : \A j \in b : i < j

\* The shutdown requests issued by the current close() call.
ShutdownRequests ==
    {n \in DOMAIN requests : requests[n].awaiter = 0 - closeCalls}

\* C8: close() works in this order -- for each ready open connection the
\* shutdown request is sent and has settled before the client socket is
\* closed, every client socket is closed before the server is closed, and
\* the server's close has settled before the child launch promise is
\* awaited -- and once close() has settled every one of these steps was
\* attempted for every connection it found, whether or not an earlier step
\* failed.
CloseStepsInOrder ==
    /\ \A c \in Socks :
          /\ AllBefore(StepAt("shutdown_sent", c), StepAt("shutdown_settled", c))
          /\ AllBefore(StepAt("shutdown_settled", c), StepAt("socket_close", c))
          /\ AllBefore(StepAt("socket_close", c), StepAt("server_close", 0))
          /\ (StepAt("shutdown_sent", c) # {} /\ StepAt("socket_close", c) # {})
                => StepAt("shutdown_settled", c) # {}
    /\ AllBefore(StepAt("server_close", 0), StepAt("child_awaited", 0))
    /\ \A n \in ShutdownRequests :
          /\ StepAt("shutdown_sent", requests[n].ws) # {}
          /\ requests[n].status = "pending" =>
                /\ handleDisposing[requests[n].ws] = None
                /\ StepAt("socket_close", requests[n].ws) = {}
                /\ StepAt("server_close", 0) = {}
          /\ StepAt("socket_close", requests[n].ws) # {} =>
                requests[n].status # "pending"
    /\ StepAt("server_close", 0) # {} =>
          /\ serverDisposing # None
          /\ \A c \in SeqToSet(closeSnapshot) :
                /\ StepAt("socket_close", c) # {}
                /\ handleDisposing[c] \in {"resolved", "rejected"}
                /\ wsState[c] # "open"
    /\ StepAt("child_awaited", 0) # {} => serverDisposing \in {"resolved", "rejected"}
    /\ closePc = "done" =>
          /\ StepAt("server_close", 0) # {}
          /\ StepAt("child_awaited", 0) # {}
          /\ testPromise # "pending"
          /\ serverStopping

\* close() has settled after the shutdown request of a ready open
\* connection was rejected and the server's close failed: the socket was
\* closed, the server closed and the child awaited all the same.
CloseWentOnAfterFailureReached ==
    /\ closePc = "done"
    /\ Len(errors) >= 2
    /\ serverDisposing = "rejected"
    /\ \E n \in ShutdownRequests :
          /\ requests[n].status = "rejected"
          /\ StepAt("socket_close", requests[n].ws) # {}
    /\ StepAt("child_awaited", 0) # {}

\* The failures of the steps of the current close() call.
CloseFailures ==
    {requests[n].error : n \in {m \in ShutdownRequests : requests[m].status = "rejected"}}
    \cup {Err("socket", ToString(c)) :
             c \in {d \in Socks : StepAt("socket_close", d) # {}
                                  /\ handleDisposing[d] = "rejected"}}
    \cup (IF serverDisposing = "rejected" THEN {Err("server", "close")} ELSE {})
    \cup (IF testPromise = "rejected" THEN {Err("child", "exited")} ELSE {})

\* C9: when close() settles, the composite error it throws carries every
\* error of its steps -- a shutdown request rejected or timed out, a socket
\* or server close that failed, a rejected child launch promise -- and
\* nothing else; close() resolves exactly when no step failed.
CloseThrowsEveryError ==
    closePc = "done" =>
        /\ SeqToSet(closeThrown) = CloseFailures
        /\ closeResult = IF CloseFailures = {} THEN "resolved" ELSE "rejected"
        /\ closeResult = "resolved" => closeThrown = <<>>

\* close() rejected with a composite of a timed-out shutdown request and a
\* rejected child launch promise.
CloseAggregateReached ==
    /\ closePc = "done"
    /\ closeResult = "rejected"
    /\ Err("timeout", "shutdown") \in SeqToSet(closeThrown)
    /\ Err("child", "exited") \in SeqToSet(closeThrown)
    /\ Len(closeThrown) >= 2

\* C10: when close() has settled, no socket the pool registered is open,
\* whether the connection was ready or not and whenever it completed its
\* handshake.
NoOpenSocketAfterClose ==
    closePc = "done" => \A ws \in Socks : wsState[ws] # "open"

\* A run or collect request is pending on the socket.
RunInFlight(ws) ==
    \E n \in DOMAIN requests :
        /\ requests[n].ws = ws
        /\ requests[n].action \in {"run", "collect"}
        /\ requests[n].status = "pending"

\* C11: close() called while a run or collect request is in flight leaves
\* that request alone, and the pool closes the connection's socket only
\* once the shutdown request it sent there has been answered or has timed
\* out; when close() resumes from that, the socket is closed.
CloseWaitsForShutdown ==
    /\ [][Close => \A n \in DOMAIN requests : requests'[n] = requests[n]]_vars
    /\ [][\A ws \in Socks :
            (RunInFlight(ws) /\ wsState[ws] = "open" /\ wsState'[ws] = "closing") =>
               \E k \in ShutdownRequests :
                  /\ requests[k].ws = ws
                  /\ requests[k].action = "shutdown"
                  /\ \/ requests[k].status = "resolved"
                     \/ requests[k].error = WorkerError
                     \/ requests[k].error = TimeoutError("shutdown")
        ]_vars
    /\ [](\A ws \in Socks :
             StepAt("shutdown_settled", ws) # {} => wsState[ws] # "open")

\* close() has closed the socket after its shutdown request timed out,
\* with the run request that was in flight when close() began still
\* pending.
ClosedAfterShutdownTimeoutReached ==
    \E ws \in Socks :
        /\ wsState[ws] = "closing"
        /\ RunInFlight(ws)
        /\ \E k \in ShutdownRequests :
              /\ requests[k].ws = ws
              /\ requests[k].error = TimeoutError("shutdown")
              /\ \E n \in DOMAIN requests :
                    n < k /\ requests[n].ws = ws /\ requests[n].status = "pending"

\* C12: the control requests still pending when close() runs are rejected
\* by it, so that once close() has settled no control request of the pool
\* is pending any more.
NoRequestPendingAfterClose ==
    closePc = "done" => \A n \in DOMAIN requests : requests[n].status # "pending"

\* C13: a second close() called after the first one has finished resolves
\* without throwing.
SecondCloseResolves ==
    (closeCalls >= 2 /\ closePc = "done") => closeResult = "resolved"

\* The projects of an input, and where each first appears in it.
ProjectsOf(files) == {files[i].project : i \in DOMAIN files}

FirstIndex(files, p) ==
    CHOOSE i \in DOMAIN files :
        files[i].project = p /\ \A j \in DOMAIN files : j < i => files[j].project # p

ProjectRank(files, p) ==
    1 + Cardinality({q \in ProjectsOf(files) : FirstIndex(files, q) < FirstIndex(files, p)})

ModulesOf(files, p) ==
    LET sel == SelectSeq(files, LAMBDA f : f.project = p)
    IN [i \in DOMAIN sel |-> sel[i].moduleId]

\* The control requests issued for a runTests/collectTests call.
TaskRequests(t) == {n \in DOMAIN requests : requests[n].awaiter = t}

\* C14: a runTests/collectTests call issues one control request per
\* project of its input, in the order the projects first appear in the
\* input, each carrying that project's files in input order and the call's
\* method; the request for a project is issued only after the request for
\* the project before it was answered.
OneRequestPerProjectInOrder ==
    \A t \in Tasks :
        LET files == taskFiles[t]
            rs == TaskRequests(t)
        IN /\ Cardinality(rs) <= Cardinality(ProjectsOf(files))
           /\ \A n \in rs :
                 LET p == requests[n].ctx.projectName
                 IN /\ p \in ProjectsOf(files)
                    /\ ProjectRank(files, p) = Cardinality({m \in rs : m <= n})
                    /\ requests[n].ctx.files = ModulesOf(files, p)
                    /\ requests[n].action = taskMethod[t]
           /\ \A n \in rs : \A m \in rs : n < m => requests[n].status = "resolved"
           /\ taskPc[t] = "done" =>
                 /\ Cardinality(rs) = Cardinality(ProjectsOf(files))
                 /\ \A n \in rs : requests[n].status = "resolved"

\* A call with files a1, b1, a2 has finished: the request for project a
\* carried a1 and a2, the request for project b followed it.
TwoProjectsDoneReached ==
    \E t \in Tasks :
        /\ taskPc[t] = "done"
        /\ taskFiles[t] = <<SpecA1, SpecB1, SpecA2>>
        /\ \E n \in TaskRequests(t) : \E m \in TaskRequests(t) :
              /\ n < m
              /\ requests[n].ctx.projectName = "a"
              /\ requests[n].ctx.files = <<"a1", "a2">>
              /\ requests[m].ctx.projectName = "b"
              /\ requests[m].ctx.files = <<"b1">>


\* C15: on both sides the payload of an inbound RPC envelope goes, within
\* the handler of that message, to exactly the subscribers registered when
\* it arrives, and touches no control state (no request settled, nothing
\* queued, nothing sent); a control envelope reaches no RPC subscriber.
ControlFrameStep ==
    \/ \E ws \in Socks : ReadyMessage(ws)
    \/ \E ws \in Socks, n \in DOMAIN requests, ok \in BOOLEAN : ResponseMessage(ws, n, ok)
    \/ \E ws \in Socks, a \in {"run", "collect", "shutdown"} : RequestMessage(ws, a)

RpcReachesSubscribersAtArrival ==
    /\ [][\A ws \in Socks, data \in RpcData :
            RpcMessage(ws, data) =>
               /\ delivered' = IF rpcSubscribers[ws] = {} THEN <<>>
                               ELSE <<[ws |-> ws, to |-> rpcSubscribers[ws], data |-> data]>>
               /\ UNCHANGED <<requests, pending, isReady, clients, pendingConnections,
                              sent, rpcSubscribers, microtasks>>]_vars
    /\ [][delivered' # <<>> => ~ControlFrameStep]_vars
    /\ [][\A data \in RpcData :
            WorkerRpcMessage(data) =>
               /\ heard' = IF rpcListeners = {} THEN <<>>
                           ELSE <<[to |-> rpcListeners, data |-> data]>>
               /\ UNCHANGED <<received, commandQueue, hostInFlight, hostCalls,
                              workerSent, rpcListeners, shuttingDown>>]_vars
    /\ [][heard' # <<>> =>
             ~(\E a \in RequestActions, c \in BOOLEAN : WorkerReceive(a, c))]_vars

\* An RPC payload was handed to the forwarder registered on one connection
\* while a second connection was Ready as well.
RpcDeliveredBesideOtherConnectionReached ==
    \E i \in DOMAIN delivered : \E w \in Socks :
        /\ w # delivered[i].ws
        /\ delivered[i].to # {}
        /\ isReady[w]
        /\ wsState[w] = "open"


\* C16: a frame the pool cannot decode (text that is no envelope, a
\* missing or unknown channel) is logged and dropped: nothing is written
\* to any socket, nothing reaches an RPC subscriber, and the requests,
\* the pending maps, the ready flags, the client lists and the subscribers
\* are as before, so what was pending can still be answered.  Stated on
\* the message handler: wherever a frame can arrive, its result for such a
\* frame is the state it started from plus one log entry.
MalformedFrameLoggedAndDropped ==
    \A ws \in Socks :
        (microtasks = <<>> /\ Inbound(ws)) =>
            \A raw \in MalformedFrames :
                OnMessage(Cur, ws, raw) = [Cur EXCEPT !.logged = {"decode_failed"}]

\* A frame that does not decode has just been dropped on a connection
\* with a request outstanding.
MalformedWhilePendingReached ==
    /\ logged = {"decode_failed"}
    /\ \E ws \in Socks : pending[ws] # {} /\ wsState[ws] = "open"


\* C17: a control request other than `ready` from a connection that is
\* not Ready is answered on that connection with an error response.
NotReadyRequestRejected ==
    [][\A ws \in Socks :
         \A a \in {"run", "collect", "shutdown"} :
            (RequestMessage(ws, a) /\ ~isReady[ws] /\ wsState[ws] = "open") =>
               /\ Len(sent'[ws]) = Len(sent[ws]) + 1
               /\ sent'[ws][Len(sent'[ws])].kind \notin {"request", "ack"}]_vars


\* C18: the transport serves one client per session: a socket accepted
\* after the first one never becomes a Ready worker and is never sent a
\* control request.  (Connect takes the sockets in index order, so the
\* further sockets are those above 1.)
OnlyFirstSocketServed ==
    \A ws \in Socks :
        ws > 1 => /\ ~isReady[ws]
                  /\ \A i \in DOMAIN sent[ws] : sent[ws][i].kind # "request"


\* C19: a control response whose id matches no pending request of the
\* connection (a late response, say after the timeout) is logged and
\* discarded, and changes no request.
LateResponseLoggedAndDiscarded ==
    [][\A ws \in Socks :
         \A n \in DOMAIN requests :
            \A ok \in BOOLEAN :
               (ResponseMessage(ws, n, ok) /\ requests[n].id \notin pending[ws]) =>
                  /\ logged' # {}
                  /\ UNCHANGED <<requests, pending, sent>>]_vars


\* C20: once a client has connected, start() eventually settles: it
\* resolves on `ready`, and rejects if the socket errors or closes first
\* or if no `ready` arrives.
StartSettlesOnceClientConnected ==
    (pwStart = "awaiting_message") ~> (pwStart \in {"resolved", "rejected"})

\* C21: when start() fails during the handshake (socket error, or a first
\* message that is not `ready`), the server and the client socket it had
\* acquired are released by the time its promise rejects.
HandshakeFailures == {"socket_error", "not_implemented", "deserialize"}

StartFailureReleasesResources ==
    (pwStart = "rejected" /\ pwStartError \in HandshakeFailures) =>
        /\ pwServer \in {"closed", "failed", None}
        /\ pwSocket \in {"closed", None}

\* C22: send() throws whenever it is called before the handshake has
\* completed, that is before start() has received `ready` and written
\* `ready_ack` (which is when start() resolves).
SendBeforeHandshakeThrows ==
    \A i \in DOMAIN pwSendLog :
        pwSendLog[i].at # "resolved" => pwSendLog[i].result = "threw"

\* C23: with no acknowledgement of `ready` within the handshake bound
\* (here: no frame at all has arrived when the series of re-sends ends)
\* the init-based run fails and does not go on to serve the runner.
ReadyLoopFailsWithoutAck ==
    (irPc \in {"serving", "resolved"} /\ irReadySent = ReadyAttempts) =>
        irHandShake # "pending"

\* C24: once the worker is serving, a socket close or error settles run():
\* rejected if no shutdown request has been processed by then, resolved if
\* one has; run() resolves in no other way, and once settled stays settled.
PeerGoneStep == WorkerSocketClose \/ WorkerSocketError

DisconnectSettlesRun ==
    /\ [][(phase = "serving" /\ ~shuttingDown /\ PeerGoneStep) =>
             (phase' = "settled" /\ runResult' = "rejected_disconnected")]_vars
    /\ [][(phase = "serving" /\ shuttingDown /\ PeerGoneStep) =>
             (phase' = "settled" /\ runResult' = "resolved")]_vars
    /\ [][runResult # None => runResult' = runResult]_vars
    /\ [](runResult = "resolved" => shuttingDown)

\* The socket went away while a shutdown request was still waiting behind
\* a host call: run() rejected.
DisconnectedBeforeQueuedShutdownReached ==
    /\ runResult = "rejected_disconnected"
    /\ ~shuttingDown
    /\ \E i \in DOMAIN commandQueue : commandQueue[i].action = "shutdown"

\* C25: when a serving worker processes a shutdown request, a success
\* response with that request's id is the last frame it writes, written
\* while the socket is still open; in the same handler the socket starts
\* closing, the message listener and the RPC subscribers are gone and
\* run() is resolved.  Nothing is written once the socket is closing.
FirstShutdown(reqs) ==
    reqs[CHOOSE i \in DOMAIN reqs :
            /\ reqs[i].action = "shutdown"
            /\ \A j \in DOMAIN reqs : reqs[j].action = "shutdown" => i <= j]

BadCtxRequests ==
    {k \in DOMAIN received : /\ received[k].action \in {"run", "collect"}
                             /\ ~received[k].ctxOk}

InQueue(id) == \E i \in DOMAIN commandQueue : commandQueue[i].id = id

BadCtxRejectedWithoutHostCall ==
    \A k \in BadCtxRequests :
        LET r == received[k]
        IN /\ \A i \in DOMAIN hostCalls : hostCalls[i].id # r.id
           /\ r \notin hostInFlight
           /\ \A i \in DOMAIN ResponsesSent :
                 ResponsesSent[i].id = r.id => ~ResponsesSent[i].success
           /\ (socketState = "open" /\ ~InQueue(r.id)) => Responded(r.id)

\* A collect request without a usable ctx that had waited behind a host
\* call has been answered with a failure.
BadCtxAnsweredBehindHostCallReached ==
    \E k \in BadCtxRequests :
        /\ received[k].busy
        /\ received[k].action = "collect"
        /\ Responded(received[k].id)
        /\ hostCalls # <<>>

\* C27: the ids of the control requests one pool instance has issued (run,
\* collect and shutdown) are non-empty and pairwise distinct, whatever the
\* clock returned when each was made.
RequestIdsDistinct ==
    /\ \A k \in DOMAIN requests : requests[k].id # ""
    /\ \A j, k \in DOMAIN requests : j # k => requests[j].id # requests[k].id

\* A run, a collect and a shutdown request have been issued, two of them
\* under the same clock value and one under an earlier value.
SameClockTwiceReached ==
    /\ {requests[k].action : k \in DOMAIN requests} = {"run", "collect", "shutdown"}
    /\ \E j, k \in DOMAIN requests :
          /\ j < k
          /\ requests[j].id = MakeRequestId(0, j)
          /\ requests[k].id = MakeRequestId(0, k)
    /\ \E k \in DOMAIN requests : requests[k].id = MakeRequestId(0 - 1, k)

\* C28: toDispose invokes the underlying dispose function at most once,
\* however often the handle is released, also when the dispose function
\* throws or releases the handle again while it runs.
DisposeFnInvokedAtMostOnce == tdCalls <= 1

\* C29: however often and however concurrently an async handle is released,
\* the async dispose function is invoked exactly once and every release
\* awaits the one promise it returned, so all releases end the same way.
AsyncDisposeOnceAndShared ==
    adReleases # <<>> =>
        /\ adCalls = 1
        /\ \A i \in DOMAIN adReleases : adReleases[i].awaits = 1

\* C30: once the handle of a handleOnce or handleOn adapter has been
\* released, the emitter holds no listener of that adapter, whether or not
\* the event ever fired.
AdapterListeners(owner) == {i \in DOMAIN emListeners : emListeners[i].owner = owner}

ReleasedAdapterLeavesNoListener ==
    /\ hoDisposed => AdapterListeners("once") = {}
    /\ hnDisposed => AdapterListeners("on") = {}

\* Both handles were released before the emitter emitted anything: the
\* handleOnce promise is still pending and a consumer had been waiting.
ReleasedBeforeAnyEventReached ==
    /\ hoDisposed /\ hnDisposed
    /\ emEmitted = 0
    /\ hoPromise = "pending"
    /\ hnResults # <<>>

\* C31: handleOn buffers the events emitted while no consumer waits and
\* yields them in emission order; the buffer never holds more than
\* maxBuffer events, and an event arriving at a full buffer takes the place
\* of the oldest buffered one.
Yielded == {i \in DOMAIN hnResults : hnResults[i].settled /\ ~hnResults[i].done}

BufferBoundedAndOrdered ==
    /\ [](Len(hnBuffer) <= hnMaxBuffer)
    /\ [](/\ \A i, j \in DOMAIN hnBuffer : i < j => hnBuffer[i] < hnBuffer[j]
          /\ \A i, j \in Yielded : i < j => hnResults[i].value < hnResults[j].value
          /\ \A i \in Yielded : \A k \in DOMAIN hnBuffer : hnResults[i].value < hnBuffer[k])
    /\ [][(emEmitted' = emEmitted + 1 /\ hnCreated /\ ~hnDone /\ hnPending = <<>>) =>
             hnBuffer' = Append(IF Len(hnBuffer) >= hnMaxBuffer /\ hnBuffer # <<>>
                                THEN Tail(hnBuffer) ELSE hnBuffer,
                                emEmitted + 1)]_vars

\* C32: when a handleOn iterator is disposed, every consumer waiting in
\* next() is resolved with done = true, every later next() returns
\* done = true, and no event emitted after the disposal is ever yielded.
DisposedIteratorYieldsNothing ==
    /\ [](hnDone => /\ hnPending = <<>>
                    /\ \A i \in DOMAIN hnResults : hnResults[i].settled)
    /\ [][(~hnDone /\ hnDone') =>
             /\ Len(hnResults') = Len(hnResults)
             /\ \A i \in DOMAIN hnResults :
                   hnResults'[i] = IF hnResults[i].settled
                                   THEN hnResults[i] ELSE IterResult(0, TRUE)]_vars
    /\ [][hnDone =>
             /\ \A i \in DOMAIN hnResults : hnResults'[i] = hnResults[i]
             /\ \A i \in DOMAIN hnResults' \ DOMAIN hnResults :
                   hnResults'[i] = IterResult(0, TRUE)
             /\ hnBuffer' = hnBuffer]_vars

\* The iterator is disposed and at least two next() calls have resolved,
\* all of them with done; an event has been emitted (the handleOnce promise
\* resolved with it) and was neither yielded nor buffered.
NextAfterDisposalReached ==
    /\ hnDone
    /\ Len(hnResults) >= 2
    /\ \A i \in DOMAIN hnResults : hnResults[i] = IterResult(0, TRUE)
    /\ emEmitted > 0
    /\ hnBuffer = <<>>
    /\ hoPromise = "resolved"

\* C33: the dispose of the bridge built for a per-project execution is
\* called exactly once, after the execution's control request has settled,
\* whether the request resolved, was rejected by the worker, timed out or
\* failed because the worker disconnected.
BridgeRequests == {n \in DOMAIN requests : requests[n].awaiter \in Tasks}

BridgeDisposedOnceAfterSettle ==
    \A n \in BridgeRequests :
        /\ requests[n].disposed <= 1
        /\ requests[n].disposed = 1 => requests[n].status # "pending"
        /\ (requests[n].status # "pending" /\ microtasks = <<>>) =>
               requests[n].disposed = 1

\* Three bridges have been disposed: one whose request resolved, one whose
\* request timed out and one whose worker disconnected.
BridgesDisposedAfterEachOutcomeReached ==
    /\ \E n \in BridgeRequests :
          requests[n].disposed = 1 /\ requests[n].status = "resolved"
    /\ \E n \in BridgeRequests :
          requests[n].disposed = 1 /\ requests[n].error.kind = "timeout"
    /\ \E n \in BridgeRequests :
          requests[n].disposed = 1 /\ requests[n].error.kind = "disconnected"

\* The decoded value `got` (in the parsed text `flat`) equals the value
\* `src` (in `heap`), followed through `depth` levels of fields.
RECURSIVE SameValue(_, _, _, _, _)
SameValue(heap, flat, src, got, depth) ==
    IF depth = 0 THEN TRUE
    ELSE IF src.t # "obj" THEN got = src
    ELSE /\ got.t = "obj"
         /\ LET sf == ObjectFields(heap, src.r)
                gf == flat[got.r].f
            IN /\ Len(sf) = Len(gf)
               /\ \A k \in DOMAIN sf :
                     /\ k \in DOMAIN gf
                     /\ sf[k][1] = gf[k][1]
                     /\ SameValue(heap, flat, sf[k][2], Resolve(flat, gf[k][2]),
                                  depth - 1)

\* Two graphs of at most MaxObjects objects that agree to this depth agree
\* at every depth.
CompareDepth == (MaxObjects + 1) * (MaxObjects + 1)

\* C34: for either channel and every serializable payload,
\* decodeEnvelope(encodeEnvelope(channel, payload)) is an envelope with the
\* same channel and an equal payload.
EnvelopeRoundTrip ==
    (cdStage = "decoded" /\ cdChannel # None) =>
        /\ cdOut.ok
        /\ cdOut.channel = cdChannel
        /\ SameValue(cdHeap, cdText.flat, cdPayload, cdOut.payload, CompareDepth)

\* A payload that is a cycle of two objects, one of them holding the
\* string that is also the channel's name, went through encode and decode.
CyclicPayloadDecodedReached ==
    /\ cdStage = "decoded"
    /\ cdChannel = "control"
    /\ cdPayload = ObjRef(1)
    /\ Len(cdHeap) = 2
    /\ cdHeap[1]["a"] = ObjRef(2)
    /\ cdHeap[2]["a"] = ObjRef(1)
    /\ cdHeap[2]["b"] = Prim("str", "control")
    /\ Len(cdText.flat) = 4

\* C35: decodeEnvelope returns an envelope only for a decoded object that
\* has both the channel key and the payload key and whose channel is
\* "control" or "rpc"; everything else it rejects.
EnvelopeNeedsBothKeys ==
    cdStage = "decoded" =>
        LET fr == ParsedFrame(cdText)
        IN cdOut.ok <=> /\ fr.form = "object"
                        /\ fr.hasChannel /\ fr.hasPayload
                        /\ fr.channel \in {"control", "rpc"}

\* C36: a request's id is in its connection's pending map exactly while the
\* request's promise is unsettled; each way of settling (matching response,
\* timer, socket close, failed send) removes the entry and leaves the timer
\* disarmed, and a settled request is never settled again.
PendingExactlyWhileUnsettled ==
    /\ [](\A n \in DOMAIN requests :
             /\ requests[n].id \in pending[requests[n].ws]
                   <=> requests[n].status = "pending"
             /\ requests[n].status = "pending" <=> requests[n].timer = "armed")
    /\ [][\A n \in DOMAIN requests :
             requests[n].status # "pending" =>
                /\ requests'[n].status = requests[n].status
                /\ requests'[n].error = requests[n].error]_vars

\* Requests have settled in three ways: by the worker disconnecting, by
\* the timer, and by a send that threw.
SettledThreeWaysReached ==
    /\ \E n \in DOMAIN requests : requests[n].error = Err("send", "failed")
    /\ \E n \in DOMAIN requests : requests[n].error.kind = "timeout"
    /\ \E n \in DOMAIN requests : requests[n].error = DisconnectedError

\* The acknowledgements of `ready` the pool wrote to a socket.
ReadyAcks(ws) == {i \in DOMAIN sent[ws] : sent[ws][i].kind = "ack"}

\* C37: a connection is in at most one of clients and pendingConnections,
\* is in clients at most once, is acknowledged and announced through
\* onClientConnected at most once however often `ready` arrives, and is in
\* neither collection once its socket has closed.
ConnectionBookkeeping ==
    /\ SeqToSet(clients) \cap SeqToSet(pendingConnections) = {}
    /\ Cardinality(SeqToSet(clients)) = Len(clients)
    /\ \A ws \in Socks :
          /\ Cardinality(ReadyAcks(ws)) <= 1
          /\ announced[ws] <= 1
          /\ wsState[ws] = "closed" =>
                /\ ws \notin SeqToSet(clients)
                /\ ws \notin SeqToSet(pendingConnections)

\* One connection is ready, acknowledged and announced once, another is
\* still waiting for its `ready`, and a third `ready` frame would arrive
\* on the first.
ReadyAndWaitingConnectionsReached ==
    /\ \E ws \in Socks : /\ ws \in SeqToSet(clients)
                         /\ Cardinality(ReadyAcks(ws)) = 1
                         /\ announced[ws] = 1
    /\ \E ws \in Socks : ws \in SeqToSet(pendingConnections)

\* C38: once a shutdown request has been processed, no host run or collect
\* is started, also not for a request that was already on the command
\* queue when the shutdown was processed.
NoHostCallAfterShutdown ==
    \A h \in DOMAIN hostCalls : ~hostCalls[h].afterShutdown

\* C39: a host test execution is started only for a control request whose
\* action is `run` (host run) or `collect` (host collect); a request with
\* any other action never starts one, whatever its ctx.
HostCallOnlyForRunOrCollect ==
    \A h \in DOMAIN hostCalls :
        /\ hostCalls[h].action \in {"run", "collect"}
        /\ hostCalls[h].entry = hostCalls[h].action

\* C40: every `ready` frame the worker sends is consumed by start()'s
\* handshake, so none is ever delivered to a 'message' listener the runner
\* registered through on() after start() returned.
NoReadyReachesRunnerListeners ==
    \A i \in DOMAIN hsHeard : hsHeard[i] # "ready"

====
